---- MODULE Spec2Model ----
(***************************************************************************)
(* A model of parts of lilac:                                              *)
(*  - the clustering / topic pipeline (src/lilac/data/clustering.py):      *)
(*    cluster() and its nested generator _compute_topics with the          *)
(*    retry-wrapped worker _compute_topic;                                 *)
(*  - flatten / unflatten and flat_batched_compute                         *)
(*    (src/lilac/batch_utils.py, chunks of src/lilac/utils.py);            *)
(*  - Field, Schema, validate_path_against_schema, column_paths_match,     *)
(*    normalize_path and the conversion to and from arrow schemas          *)
(*    (src/src/schema.py);                                                 *)
(*  - VectorStore.topk, as the specification and                           *)
(*    src/src/embeddings/vector_store_test.py describe it.               *)
(***************************************************************************)
EXTENDS Integers, Sequences, FiniteSets, TLC

(***************************************************************************)
(* Bounds of the model.                                                    *)
(***************************************************************************)
\* Longest item stream handed to _compute_topics.
MaxItems == 2
\* Largest number of tasks handed to the worker pool in the pool's counter view.
MaxPoolTasks == 34
\* Longest item stream of the grouping loop taken alone.
MaxGroupItems == 6
\* Largest number of nodes (leaves and lists) of a nested value.
MaxNodes == 5
\* Longest flat sequence a caller brings to unflatten.
MaxFlat == 5
\* Largest number of inner sequences handed to flat_batched_compute.
MaxInner == 3
\* Longest inner sequence.
MaxInnerLen == 2
\* Largest batch size.
MaxBatchSize == 3
\* Largest number of nodes of what is handed to Field(...) as repeated_field or as fields.
MaxChildNodes == 2
\* Largest number of nodes of the fields handed to Schema(...).
MaxSchemaNodes == 4
\* Longest path handed to validate_path_against_schema and column_paths_match.
MaxPathLen == 3
\* Longest dotted string handed to normalize_path, in characters.
MaxPathChars == 4
\* Largest number of vectors in the vector store.
MaxStored == 3
\* Largest `k` handed to topk.
MaxK == 3

(***************************************************************************)
(* Program constants.                                                      *)
(***************************************************************************)
\* clustering.py:30  _NUM_THREADS = 32
NUM_THREADS == 32
\* clustering.py:157  stop=stop_after_attempt(10)
MaxAttempts == 10

(***************************************************************************)
(* Input domains.                                                          *)
(***************************************************************************)
\* A membership probability that is None.
NoProb == -1
\* The None a worker returns when there is no topic.
NoTopic == "None"

ClusterIds == {-1, 0, 1}
Texts == {"", "a", "b"}
Probs == {NoProb, 0, 1, 2}
\* What the topic function may return.
TopicValues == {"t1", "t2"}

Items == [cluster_id : ClusterIds, text : Texts, prob : Probs]

RECURSIVE SeqsUpTo(_, _)
SeqsUpTo(S, n) ==
  IF n = 0 THEN {<<>>}
  ELSE LET shorter == SeqsUpTo(S, n - 1)
       IN  shorter \cup {Append(s, x) : s \in {t \in shorter : Len(t) = n - 1}, x \in S}

VARIABLES
  items,            \* the item stream of the run
  tpc,              \* position of the generator: idle, grouping, dispatch, done, error
  consumed,         \* number of items the grouping loop has taken
  groups,           \* dict cluster id -> list of <<text, prob>>
  group_keys,       \* the keys of `groups` in insertion order (dict order)
  cluster_locks,    \* dict cluster id -> 0 (free) or the task that holds the lock
  delayed_compute,  \* list of delayed _compute_topic(cluster_id) calls
  topics,           \* dict cluster id -> topic
  pc,               \* per task: queued, ready, calling, done, failed
  attempt,          \* per task: number of the current attempt
  result,           \* per task: its return value
  output,           \* what the generator has yielded so far
  submitted,        \* number of tasks handed to the pool
  started,          \* number of tasks a worker thread has picked up
  active,           \* number of worker threads running a task
  fnCalls,          \* per cluster id: calls of topic_fn
  fnReturns,        \* per cluster id: calls of topic_fn that returned
  fnArgs,           \* the <<cluster id, list>> arguments topic_fn was called with
  cpc,              \* position of cluster(): start, rejected, clusters, topics_pending,
                    \* topics, done, failed
  embedding,        \* argument `embedding`
  path_arg,         \* argument `path`: a dotted string or a tuple of components
  path,             \* local `path` after normalize_path
  output_path,      \* argument `output_path` (<<>> when not given)
  overwrite,        \* argument `overwrite`
  cluster_output_path,  \* local `cluster_output_path`
  clusters_exists,  \* local `clusters_exists`
  schema,           \* the field paths of the dataset's schema
  calls,            \* the dataset.transform calls made so far
  fpc,              \* position of a flatten / unflatten call: idle, start, flattened,
                    \* given, round_trip, unflattened
  original_input,   \* argument `original_input` / `input`: a nested value
  is_primitive_predicate,  \* argument `is_primitive_predicate`
  flat_input,       \* argument `flat_input`: the flat sequence
  unflat,           \* outcome of the unflatten call
  bpc,              \* position of flat_batched_compute: idle, running, done, raised
  batch_input,      \* argument `input`: a sequence of inner sequences
  batch_size,       \* argument `batch_size`
  chunked,          \* number of flat elements chunks has taken
  batches,          \* the batches f was called with, in call order
  f_outputs,        \* what f returned, in call order
  pending_outputs,  \* outputs of the last f call that unflatten has not taken yet
  partial,          \* the inner list unflatten is rebuilding
  yielded,          \* the inner lists yielded so far
  spc,              \* position of a Field / Schema call: idle, field_start, field_made,
                    \* field_raised
  field_args,       \* the arguments of Field(...)
  field,            \* the Field constructed
  schema_fields,    \* argument `fields` of Schema(...)
  leafs_arg,        \* argument `leafs` of Schema(...), empty when not given
  leafs,            \* the `leafs` of the Schema constructed
  vpath,            \* argument `path` of validate_path_against_schema
  path_match,       \* argument `path_match` of column_paths_match
  specific_path,    \* argument `specific_path` of column_paths_match
  vresult,          \* outcome of the path function: none, ok, raised, true, false
  npc,              \* position of a normalize_path caller: idle, start, once, twice
  norm_path,        \* argument `path` of normalize_path: a dotted string or a tuple
  normalized,       \* what normalize_path returned
  renormalized,     \* what normalize_path returned for its own result
  kpc,              \* position of a topk caller: idle, start, ranked, ranked_again
  store,            \* the vector store: <<key, vector>> entries in insertion order
  query,            \* argument `query` of topk
  topk_k,           \* argument `k` of topk
  topk_keys,        \* argument `keys` of topk: [given, val]
  tie_break,        \* the order the store leaves equal scores in
  topk_result,      \* what topk returned: <<key, score>> pairs
  keys_again,       \* the `keys` of a second call: the same keys in another order
  topk_again,       \* what the second call returned
  apc,              \* position of an arrow conversion: idle, start, arrow, arrow_raised,
                    \* back, back_raised
  arrow_schema,     \* what schema_to_arrow_schema returned: name -> arrow type
  back_fields       \* the fields of what arrow_schema_to_schema returned

callVars == <<cpc, embedding, path_arg, path, output_path, overwrite,
              cluster_output_path, clusters_exists, schema, calls>>

runVars == <<items, tpc, consumed, groups, group_keys, cluster_locks, delayed_compute, topics,
             pc, attempt, result, output, submitted, started, active,
             fnCalls, fnReturns, fnArgs>>

flatVars == <<fpc, original_input, is_primitive_predicate, flat_input, unflat>>

batchVars == <<bpc, batch_input, batch_size, chunked, batches, f_outputs,
               pending_outputs, partial, yielded>>

schemaVars == <<spc, field_args, field, schema_fields, leafs_arg, leafs, vpath, path_match,
                specific_path, vresult>>

extraVars == <<npc, norm_path, normalized, renormalized,
               kpc, store, query, topk_k, topk_keys, tie_break, topk_result, keys_again,
               topk_again, apc, arrow_schema, back_fields>>

libVars == <<flatVars, batchVars, schemaVars, extraVars>>

vars == <<runVars, callVars, libVars>>

(***************************************************************************)
(* Helpers for dicts.                                                      *)
(***************************************************************************)
EmptyDict == <<>>
Put(d, k, v) == [c \in (DOMAIN d) \cup {k} |-> IF c = k THEN v ELSE d[c]]
\* dict.setdefault(k, v) followed by a use of the stored value.
SetDefault(d, k, v) == IF k \in DOMAIN d THEN d ELSE Put(d, k, v)

(***************************************************************************)
(* The grouping loop of _compute_topics.                                   *)
(***************************************************************************)
\* `item[cluster_column][MEMBERSHIP_PROB] or 0`
ProbOrZero(p) == IF p = NoProb THEN 0 ELSE p

\* The loop without its `if not text: continue`.
KeepsItemAnyText(item) ==
  /\ ~(item.cluster_id < 0)
  /\ ProbOrZero(item.prob) # 0

\* The loop without its `if membership_prob == 0: continue`.
KeepsItemAnyProb(item) ==
  /\ item.text # ""
  /\ ~(item.cluster_id < 0)

\* The three `continue`s of the loop: an item is added to its group only when
\* its text is non-empty, its cluster id is not negative and its membership
\* probability is neither None nor 0.
KeepsItem(item) ==
  /\ item.text # ""
  /\ ~(item.cluster_id < 0)
  /\ ProbOrZero(item.prob) # 0

\* The task appended after the filters instead of before them.
SubmitsTaskAfterFilters(item) == KeepsItem(item)

\* A task is appended for every item, before the filters.
SubmitsTask(item) == TRUE

\* Stable insertion of a <<text, prob>> pair in a list sorted by descending prob.
RECURSIVE InsertDesc(_, _)
InsertDesc(x, s) ==
  IF s = <<>> THEN <<x>>
  ELSE IF Head(s)[2] >= x[2] THEN <<Head(s)>> \o InsertDesc(x, Tail(s))
       ELSE <<x>> \o s

\* The groups left in input order.
SortNone(s) == s

\* group.sort(key=lambda text_score: text_score[1], reverse=True): a stable sort.
RECURSIVE SortDesc(_)
SortDesc(s) ==
  IF s = <<>> THEN <<>>
  ELSE InsertDesc(s[Len(s)], SortDesc(SubSeq(s, 1, Len(s) - 1)))

\* `groups[cluster_id] = [(text, membership_prob)]`: the group replaced, not extended.
ResetGroup(g, cid, pair) == Put(g, cid, <<pair>>)

\* groups.setdefault(cluster_id, []).append((text, membership_prob))
AddToGroup(g, cid, pair) ==
  Put(g, cid, Append(IF cid \in DOMAIN g THEN g[cid] ELSE <<>>, pair))

\* One iteration of `for item in items`.
GroupItem ==
  /\ tpc = "grouping"
  /\ consumed < Len(items)
  /\ LET item == items[consumed + 1]
         cid == item.cluster_id
     IN  /\ delayed_compute' = IF SubmitsTask(item) THEN Append(delayed_compute, cid)
                               ELSE delayed_compute
         /\ IF KeepsItem(item)
            THEN /\ groups' = AddToGroup(groups, cid, <<item.text, ProbOrZero(item.prob)>>)
                 /\ group_keys' = IF cid \in DOMAIN groups THEN group_keys
                                  ELSE Append(group_keys, cid)
                 /\ cluster_locks' = SetDefault(cluster_locks, cid, 0)
            ELSE UNCHANGED <<groups, group_keys, cluster_locks>>
  /\ consumed' = consumed + 1
  /\ UNCHANGED <<items, tpc, topics, pc, attempt, result, output, submitted, started,
                 active, fnCalls, fnReturns, fnArgs, callVars, libVars>>

\* The end of the loop: every group is sorted and the tasks are handed to
\* Parallel(n_jobs=_NUM_THREADS, backend='threading', return_as='generator').
SortAndDispatch ==
  /\ tpc = "grouping"
  /\ consumed = Len(items)
  /\ groups' = [c \in DOMAIN groups |-> SortDesc(groups[c])]
  /\ tpc' = "dispatch"
  /\ submitted' = Len(delayed_compute)
  /\ pc' = [i \in 1..Len(delayed_compute) |-> "queued"]
  /\ attempt' = [i \in 1..Len(delayed_compute) |-> 0]
  /\ result' = [i \in 1..Len(delayed_compute) |-> NoTopic]
  /\ UNCHANGED <<items, consumed, group_keys, cluster_locks, delayed_compute, topics,
                 output, started, active, fnCalls, fnReturns, fnArgs, callVars, libVars>>

(***************************************************************************)
(* The worker pool and the retry-wrapped _compute_topic.                   *)
(***************************************************************************)
Tasks == DOMAIN pc

\* A pool that starts a thread for every task.
WorkerAlwaysAvailable == TRUE

\* n_jobs=_NUM_THREADS: a task starts only when a worker thread is free.
WorkerAvailable == active < NUM_THREADS

\* One lock shared by every cluster id.
GlobalLockFree(cid) == \A c \in DOMAIN cluster_locks : cluster_locks[c] = 0

\* A retry policy that allows one attempt more.
MayRetryOneMore(a) == a < MaxAttempts + 1

\* A retry policy that stops one attempt early.
MayRetryOneLess(a) == a < MaxAttempts - 1

\* stop_after_attempt(10): after a failed attempt, retry unless this was the last.
MayRetry(a) == a < MaxAttempts

\* A worker that does not wait for the lock.
LockIgnored(cid) == TRUE

\* `with cluster_locks[cluster_id]:` is entered only while no task holds the lock.
LockFree(cid) == cluster_locks[cid] = 0

\* A `with` block that does not release its lock.
KeepLock(locks, cid) == locks

\* Leaving `with cluster_locks[cluster_id]:`, by return or by exception,
\* releases the lock.
ReleaseLock(locks, cid) == [locks EXCEPT ![cid] = 0]

\* A retry policy that swallows the last error and returns None.
ExhaustedReturnsNone == "done"

\* What a task ends as when its last attempt raised: tenacity raises RetryError.
ExhaustedOutcome == "failed"

\* A worker thread takes the next task of the queue and begins its first attempt.
StartTask(i) ==
  /\ tpc = "dispatch"
  /\ pc[i] = "queued"
  /\ \A j \in Tasks : j < i => pc[j] # "queued"
  /\ WorkerAvailable
  /\ pc' = [pc EXCEPT ![i] = "ready"]
  /\ attempt' = [attempt EXCEPT ![i] = 1]
  /\ started' = started + 1
  /\ active' = active + 1
  /\ UNCHANGED <<items, tpc, consumed, groups, group_keys, cluster_locks, delayed_compute, topics,
                 result, output, submitted, fnCalls, fnReturns, fnArgs, callVars, libVars>>

\* `if cluster_id not in cluster_locks: return None`
ReturnNoLock(i) ==
  /\ pc[i] = "ready"
  /\ delayed_compute[i] \notin DOMAIN cluster_locks
  /\ pc' = [pc EXCEPT ![i] = "done"]
  /\ result' = [result EXCEPT ![i] = NoTopic]
  /\ active' = active - 1
  /\ UNCHANGED <<items, tpc, consumed, groups, group_keys, cluster_locks, delayed_compute, topics,
                 attempt, output, submitted, started, fnCalls, fnReturns, fnArgs, callVars, libVars>>

\* `with cluster_locks[cluster_id]:` acquired, and the topic is cached.
ReturnCached(i) ==
  LET cid == delayed_compute[i]
  IN  /\ pc[i] = "ready"
      /\ cid \in DOMAIN cluster_locks
      /\ LockFree(cid)
      /\ cid \in DOMAIN topics
      /\ pc' = [pc EXCEPT ![i] = "done"]
      /\ result' = [result EXCEPT ![i] = topics[cid]]
      /\ active' = active - 1
      /\ UNCHANGED <<items, tpc, consumed, groups, group_keys, cluster_locks, delayed_compute,
                     topics, attempt, output, submitted, started, fnCalls, fnReturns,
                     fnArgs, callVars, libVars>>

\* `with cluster_locks[cluster_id]:` acquired, no topic cached: the worker
\* returns None for an empty group and calls topic_fn(group) otherwise.
EnterLock(i) ==
  LET cid == delayed_compute[i]
  IN  /\ pc[i] = "ready"
      /\ cid \in DOMAIN cluster_locks
      /\ LockFree(cid)
      /\ cid \notin DOMAIN topics
      /\ IF groups[cid] = <<>>
         THEN /\ pc' = [pc EXCEPT ![i] = "done"]
              /\ result' = [result EXCEPT ![i] = NoTopic]
              /\ active' = active - 1
              /\ UNCHANGED <<cluster_locks, fnCalls, fnArgs>>
         ELSE /\ pc' = [pc EXCEPT ![i] = "calling"]
              /\ cluster_locks' = [cluster_locks EXCEPT ![cid] = i]
              /\ fnCalls' = [fnCalls EXCEPT ![cid] = @ + 1]
              /\ fnArgs' = fnArgs \cup {<<cid, groups[cid]>>}
              /\ UNCHANGED <<result, active>>
      /\ UNCHANGED <<items, tpc, consumed, groups, group_keys, delayed_compute, topics, attempt,
                     output, submitted, started, fnReturns, callVars, libVars>>

\* topic_fn returns t: the topic is cached and the lock released.
FnReturn(i, t) ==
  LET cid == delayed_compute[i]
  IN  /\ pc[i] = "calling"
      /\ topics' = Put(topics, cid, t)
      /\ cluster_locks' = ReleaseLock(cluster_locks, cid)
      /\ pc' = [pc EXCEPT ![i] = "done"]
      /\ result' = [result EXCEPT ![i] = t]
      /\ active' = active - 1
      /\ fnReturns' = [fnReturns EXCEPT ![cid] = @ + 1]
      /\ UNCHANGED <<items, tpc, consumed, groups, group_keys, delayed_compute, attempt, output,
                     submitted, started, fnCalls, fnArgs, callVars, libVars>>

\* topic_fn raises: the lock is released; tenacity waits and starts the next
\* attempt, or gives up with a RetryError after the last one.
FnRaise(i) ==
  LET cid == delayed_compute[i]
  IN  /\ pc[i] = "calling"
      /\ cluster_locks' = ReleaseLock(cluster_locks, cid)
      /\ IF MayRetry(attempt[i])
         THEN /\ pc' = [pc EXCEPT ![i] = "ready"]
              /\ attempt' = [attempt EXCEPT ![i] = @ + 1]
              /\ UNCHANGED active
         ELSE /\ pc' = [pc EXCEPT ![i] = ExhaustedOutcome]
              /\ active' = active - 1
              /\ UNCHANGED attempt
      /\ UNCHANGED <<items, tpc, consumed, groups, group_keys, delayed_compute, topics, result,
                     output, submitted, started, fnCalls, fnReturns, fnArgs, callVars, libVars>>

(***************************************************************************)
(* `yield from parallel(delayed_compute)`: results in submission order.    *)
(***************************************************************************)
NextJob == Len(output) + 1

YieldResult ==
  /\ tpc = "dispatch"
  /\ NextJob \in Tasks
  /\ pc[NextJob] = "done"
  /\ output' = Append(output, result[NextJob])
  /\ UNCHANGED <<items, tpc, consumed, groups, group_keys, cluster_locks, delayed_compute, topics,
                 pc, attempt, result, submitted, started, active, fnCalls, fnReturns,
                 fnArgs, callVars, libVars>>

\* Every result has been yielded: the generator is exhausted.
Finish ==
  /\ tpc = "dispatch"
  /\ Len(output) = Len(delayed_compute)
  /\ tpc' = "done"
  /\ UNCHANGED <<items, consumed, groups, group_keys, cluster_locks, delayed_compute, topics,
                 pc, attempt, result, output, submitted, started, active, fnCalls,
                 fnReturns, fnArgs, callVars, libVars>>

\* A task has failed: the generator raises its error to the caller.
RaiseError ==
  /\ tpc = "dispatch"
  /\ \E i \in Tasks : pc[i] = "failed"
  /\ tpc' = "error"
  /\ UNCHANGED <<items, consumed, groups, group_keys, cluster_locks, delayed_compute, topics,
                 pc, attempt, result, output, submitted, started, active, fnCalls,
                 fnReturns, fnArgs, callVars, libVars>>

NextRun ==
  \/ GroupItem
  \/ SortAndDispatch
  \/ \E i \in Tasks : StartTask(i)
  \/ \E i \in Tasks : ReturnNoLock(i)
  \/ \E i \in Tasks : ReturnCached(i)
  \/ \E i \in Tasks : EnterLock(i)
  \/ \E i \in Tasks, t \in TopicValues : FnReturn(i, t)
  \/ \E i \in Tasks : FnRaise(i)
  \/ YieldResult
  \/ Finish
  \/ RaiseError

(***************************************************************************)
(* The worker pool seen as counters, for task lists longer than the pool:  *)
(* `submitted` tasks wait in the queue, a worker thread takes the next one *)
(* when it is free and gives the thread back when the task ends.           *)
(***************************************************************************)
PoolStart ==
  /\ tpc = "dispatch"
  /\ started < submitted
  /\ WorkerAvailable
  /\ started' = started + 1
  /\ active' = active + 1
  /\ UNCHANGED <<items, tpc, consumed, groups, group_keys, cluster_locks, delayed_compute, topics,
                 pc, attempt, result, output, submitted, fnCalls, fnReturns, fnArgs,
                 callVars, libVars>>

PoolFinish ==
  /\ tpc = "dispatch"
  /\ active > 0
  /\ active' = active - 1
  /\ UNCHANGED <<items, tpc, consumed, groups, group_keys, cluster_locks, delayed_compute, topics,
                 pc, attempt, result, output, submitted, started, fnCalls, fnReturns,
                 fnArgs, callVars, libVars>>

NextPool == PoolStart \/ PoolFinish

(***************************************************************************)
(* cluster(): argument checks, the cluster-assignment transform and the    *)
(* topic transform.                                                        *)
(***************************************************************************)
\* schema.py:22  PATH_WILDCARD = '*'.  A path component is a string, written
\* here as the sequence of its characters.
PATH_WILDCARD == <<"*">>
\* `embedding` left at its default None.
NoneValue == "<None>"
\* TOPIC_FIELD_NAME, CLUSTER_FIELD_NAME
TOPIC_FIELD_NAME == <<"topic">>
CLUSTER_FIELD_NAME == <<"cluster">>

\* str.split('.') of a string given as its characters.
RECURSIVE Split(_)
Split(s) ==
  IF s = <<>> THEN << <<>> >>
  ELSE IF Head(s) = "." THEN << <<>> >> \o Split(Tail(s))
       ELSE LET r == Split(Tail(s))
            IN  << <<Head(s)>> \o Head(r) >> \o Tail(r)

\* A normalize_path that wraps a string without splitting it.
normalize_path_unsplit(p) == IF p.str THEN <<p.val>> ELSE p.val

\* normalize_path: a string is split on '.', a tuple is returned as it is.
normalize_path(p) == IF p.str THEN Split(p.val) ELSE p.val

\* `not embedding`: None and the empty string are falsy.
NoEmbedding(e) == e = NoneValue \/ e = ""

\* The check made on the first component instead of the last.
StartsWithWildcard(p) == p[1] = PATH_WILDCARD

\* `path[-1] == PATH_WILDCARD`
EndsWithWildcard(p) == p[Len(p)] = PATH_WILDCARD

\* The stage run only when the field is absent, whatever `overwrite` says.
RunsClusterStageIfAbsent(exists, ow) == ~exists

\* `if not clusters_exists or overwrite:`
RunsClusterStage(exists, ow) == ~exists \/ ow

\* get_sibling_output_path(path, CLUSTER_FIELD_NAME): the input path with the
\* suffix added to its last component.
get_sibling_output_path(p, suffix) ==
  [p EXCEPT ![Len(p)] = @ \o <<"__">> \o suffix]

\* Schema.has_field(path)
has_field(sch, p) == p \in sch

\* The record of one dataset.transform call.
TransformCall(stage, out) == [stage |-> stage, output_path |-> out, overwrite |-> overwrite]

\* `if not embedding: raise ValueError(...)`
ClusterRejectEmbedding ==
  /\ cpc = "start"
  /\ NoEmbedding(embedding)
  /\ cpc' = "rejected"
  /\ UNCHANGED <<embedding, path_arg, path, output_path, overwrite, cluster_output_path,
                 clusters_exists, schema, calls, runVars, libVars>>

\* `if path[-1] == PATH_WILDCARD: raise ValueError(...)`; path[-1] of an empty
\* tuple raises IndexError.
ClusterRejectPath ==
  /\ cpc = "start"
  /\ ~NoEmbedding(embedding)
  /\ LET p == normalize_path(path_arg)
     IN  /\ IF p = <<>> THEN TRUE ELSE EndsWithWildcard(p)
         /\ path' = p
  /\ cpc' = "rejected"
  /\ UNCHANGED <<embedding, path_arg, output_path, overwrite, cluster_output_path,
                 clusters_exists, schema, calls, runVars, libVars>>

\* The arguments pass: the output path is chosen and the schema is asked
\* whether the cluster field exists.
ClusterAccept ==
  /\ cpc = "start"
  /\ ~NoEmbedding(embedding)
  /\ LET p == normalize_path(path_arg)
         out == IF output_path # <<>> THEN output_path
                ELSE get_sibling_output_path(p, CLUSTER_FIELD_NAME)
     IN  /\ p # <<>>
         /\ ~EndsWithWildcard(p)
         /\ path' = p
         /\ cluster_output_path' = out
         /\ clusters_exists' = has_field(schema, out)
  /\ cpc' = "clusters"
  /\ UNCHANGED <<embedding, path_arg, output_path, overwrite, schema, calls, runVars, libVars>>

\* dataset.transform(_compute_clusters, ...): the host runs the transform and
\* adds the output field to the schema, or raises.
ClusterTransform(ok) ==
  /\ cpc = "clusters"
  /\ RunsClusterStage(clusters_exists, overwrite)
  /\ calls' = Append(calls, TransformCall("clusters", cluster_output_path))
  /\ IF ok
     THEN /\ schema' = schema \cup {cluster_output_path}
          /\ cpc' = "topics_pending"
     ELSE /\ cpc' = "failed"
          /\ UNCHANGED schema
  /\ UNCHANGED <<embedding, path_arg, path, output_path, overwrite, cluster_output_path,
                 clusters_exists, runVars, libVars>>

\* The cluster field exists and overwrite is false: the stage is skipped.
ClusterSkip ==
  /\ cpc = "clusters"
  /\ ~RunsClusterStage(clusters_exists, overwrite)
  /\ cpc' = "topics_pending"
  /\ UNCHANGED <<embedding, path_arg, path, output_path, overwrite, cluster_output_path,
                 clusters_exists, schema, calls, runVars, libVars>>

\* dataset.transform(functools.partial(_compute_topics, ...), ...) is called.
TopicTransform ==
  /\ cpc = "topics_pending"
  /\ calls' = Append(calls, TransformCall("topics",
                                          Append(cluster_output_path, TOPIC_FIELD_NAME)))
  /\ cpc' = "topics"
  /\ UNCHANGED <<embedding, path_arg, path, output_path, overwrite, cluster_output_path,
                 clusters_exists, schema, runVars, libVars>>

\* The topic transform returns: the topic field is part of the schema; or it
\* raises (the error of _compute_topics, or one of the host).
TopicTransformEnd(ok) ==
  /\ cpc = "topics"
  /\ IF ok
     THEN /\ schema' = schema \cup {Append(cluster_output_path, TOPIC_FIELD_NAME)}
          /\ cpc' = "done"
     ELSE /\ cpc' = "failed"
          /\ UNCHANGED schema
  /\ UNCHANGED <<embedding, path_arg, path, output_path, overwrite, cluster_output_path,
                 clusters_exists, calls, runVars, libVars>>

NextCluster ==
  \/ ClusterRejectEmbedding
  \/ ClusterRejectPath
  \/ ClusterAccept
  \/ \E ok \in BOOLEAN : ClusterTransform(ok)
  \/ ClusterSkip
  \/ TopicTransform
  \/ \E ok \in BOOLEAN : TopicTransformEnd(ok)

(***************************************************************************)
(* Flatten / unflatten of nested values (src/lilac/batch_utils.py).        *)
(***************************************************************************)
\* Nested values: a primitive scalar n, a dict with n keys, a list of values.
Prim(n) == [k |-> "prim", n |-> n, c |-> <<>>]
Dict(n) == [k |-> "dict", n |-> n, c |-> <<>>]
List(c) == [k |-> "list", n |-> 0, c |-> c]

\* The leaves nested values are built from.
Leaves == {Prim(1), Prim(2), Dict(1)}

\* The values of exactly n nodes, and the lists of values of m nodes in all.
RECURSIVE ValuesOfSize(_), ForestsOfSize(_)
ValuesOfSize(n) ==
  IF n = 1 THEN Leaves \cup {List(<<>>)}
  ELSE {List(f) : f \in ForestsOfSize(n - 1)}
ForestsOfSize(m) ==
  IF m = 0 THEN {<<>>}
  ELSE UNION {{<<v>> \o f : v \in ValuesOfSize(j), f \in ForestsOfSize(m - j)} : j \in 1..m}

Values == UNION {ValuesOfSize(n) : n \in 1..MaxNodes}

\* utils.is_primitive: true of scalars, false of containers.
is_primitive(x) == x.k = "prim"

\* isinstance(x, dict)
IsDict(x) == x.k = "dict"

\* isinstance(x, Iterable) for the values of the model.
IsIterable(x) == x.k \in {"list", "dict"}

\* What iterating a value gives: the elements of a list, the keys of a dict.
Elems(x) == IF x.k = "list" THEN x.c ELSE [i \in 1..x.n |-> Prim(0)]

\* A non-empty list of primitives.
IsVector(x) == x.k = "list" /\ x.c # <<>> /\ \A i \in 1..Len(x.c) : x.c[i].k = "prim"

\* The leaf predicates a caller may pass as `is_primitive_predicate`.
LeafPredicates == {"is_primitive", "never", "is_vector", "is_primitive_or_vector"}
Holds(p, x) ==
  CASE p = "is_primitive" -> is_primitive(x)
    [] p = "never" -> FALSE
    [] p = "is_vector" -> IsVector(x)
    [] p = "is_primitive_or_vector" -> is_primitive(x) \/ IsVector(x)

\* _array_flatten, and its `for elem in input: yield from ...` as FlattenAll.
RECURSIVE array_flatten_rec(_, _), FlattenAll(_, _)
array_flatten_rec(input, p) ==
  IF Holds(p, input) \/ IsDict(input) \/ is_primitive(input)
  THEN <<input>>
  ELSE FlattenAll(Elems(input), p)
FlattenAll(elems, p) ==
  IF elems = <<>> THEN <<>>
  ELSE array_flatten_rec(Head(elems), p) \o FlattenAll(Tail(elems), p)

\* array_flatten
array_flatten(input, p) == array_flatten_rec(input, p)

\* An unflatten step that raised (next() on an exhausted iterator, or a
\* primitive that is iterated).
Raised == [ok |-> FALSE, val |-> <<>>, rest |-> <<>>]

\* next(flat_input, None): an exhausted iterator gives a value instead of raising.
NextOrNone(flat) ==
  IF flat = <<>> THEN [ok |-> TRUE, val |-> Prim(0), rest |-> <<>>]
  ELSE [ok |-> TRUE, val |-> Head(flat), rest |-> Tail(flat)]

\* next(flat_input): the next element, or StopIteration when there is none.
NextOf(flat) ==
  IF flat = <<>> THEN Raised
  ELSE [ok |-> TRUE, val |-> Head(flat), rest |-> Tail(flat)]

\* `is_primitive_predicate(original_input) or isinstance(original_input, dict)`
PullsOne(p, x) == Holds(p, x) \/ IsDict(x)

\* _array_unflatten: the value rebuilt and the rest of the iterator, and the
\* list comprehension over the elements as UnflattenAll.
RECURSIVE array_unflatten_rec(_, _, _), UnflattenAll(_, _, _)
array_unflatten_rec(flat, orig, p) ==
  IF PullsOne(p, orig) THEN NextOf(flat)
  ELSE IF ~IsIterable(orig) THEN Raised
  ELSE LET r == UnflattenAll(flat, Elems(orig), p)
       IN  IF r.ok THEN [ok |-> TRUE, val |-> List(r.val), rest |-> r.rest] ELSE Raised
UnflattenAll(flat, origs, p) ==
  IF origs = <<>> THEN [ok |-> TRUE, val |-> <<>>, rest |-> flat]
  ELSE LET h == array_unflatten_rec(flat, Head(origs), p)
       IN  IF ~h.ok THEN Raised
           ELSE LET t == UnflattenAll(h.rest, Tail(origs), p)
                IN  IF ~t.ok THEN Raised
                    ELSE [ok |-> TRUE, val |-> <<h.val>> \o t.val, rest |-> t.rest]

\* list(array_unflatten(flat_input, original_input, p))
array_unflatten(flat, orig, p) ==
  IF IsIterable(orig) /\ ~Holds(p, orig)
  THEN LET r == UnflattenAll(flat, Elems(orig), p)
       IN  IF r.ok THEN [ok |-> TRUE, val |-> List(r.val), rest |-> r.rest] ELSE Raised
  ELSE LET r == array_unflatten_rec(flat, orig, p)
       IN  IF r.ok THEN [ok |-> TRUE, val |-> List(<<r.val>>), rest |-> r.rest] ELSE Raised

\* n calls of next(flat_inputs_iter), collected in a list.
RECURSIVE TakeN(_, _)
TakeN(flat, n) ==
  IF n = 0 THEN [ok |-> TRUE, val |-> <<>>, rest |-> flat]
  ELSE LET h == NextOf(flat)
       IN  IF ~h.ok THEN Raised
           ELSE LET t == TakeN(h.rest, n - 1)
                IN  IF ~t.ok THEN Raised
                    ELSE [ok |-> TRUE, val |-> <<h.val>> \o t.val, rest |-> t.rest]

\* `[next(flat_inputs_iter) for _ in original_input]` of unflatten.
TakeFor(flat, orig) ==
  IF ~IsIterable(orig) THEN Raised
  ELSE LET r == TakeN(flat, Len(Elems(orig)))
       IN  IF r.ok THEN [ok |-> TRUE, val |-> List(r.val), rest |-> r.rest] ELSE Raised

\* The loop of unflatten over the inner sequences.
RECURSIVE UnflattenInner(_, _)
UnflattenInner(flat, origs) ==
  IF origs = <<>> THEN [ok |-> TRUE, val |-> <<>>, rest |-> flat]
  ELSE LET h == TakeFor(flat, Head(origs))
       IN  IF ~h.ok THEN Raised
           ELSE LET t == UnflattenInner(h.rest, Tail(origs))
                IN  IF ~t.ok THEN Raised
                    ELSE [ok |-> TRUE, val |-> <<h.val>> \o t.val, rest |-> t.rest]

\* list(unflatten(flat_inputs, original_inputs))
unflatten(flat, origs) ==
  IF ~IsIterable(origs) THEN Raised
  ELSE LET r == UnflattenInner(flat, Elems(origs))
       IN  IF r.ok THEN [ok |-> TRUE, val |-> List(r.val), rest |-> r.rest] ELSE Raised

\* What a finished unflatten call leaves: the function called, whether it
\* returned, the list it returned and how many elements it took.
Outcome(fn, flat, r) ==
  [fn |-> fn, ok |-> r.ok, val |-> r.val,
   taken |-> IF r.ok THEN Len(flat) - Len(r.rest) ELSE 0]
NoOutcome == [fn |-> "none", ok |-> FALSE, val |-> <<>>, taken |-> 0]

\* flat = array_flatten(x, p)
ArrayFlatten ==
  /\ fpc = "start"
  /\ flat_input' = array_flatten(original_input, is_primitive_predicate)
  /\ fpc' = "flattened"
  /\ UNCHANGED <<original_input, is_primitive_predicate, unflat, batchVars, schemaVars,
                 runVars, callVars, extraVars>>

\* The caller brings a flat sequence of its own: n distinct primitives.
GivenFlat(n) ==
  /\ fpc = "start"
  /\ flat_input' = [i \in 1..n |-> Prim(10 + i)]
  /\ fpc' = "given"
  /\ UNCHANGED <<original_input, is_primitive_predicate, unflat, batchVars, schemaVars,
                 runVars, callVars, extraVars>>

\* list(array_unflatten(flat, x, p))
ArrayUnflatten ==
  /\ fpc \in {"flattened", "given"}
  /\ unflat' = Outcome("array_unflatten", flat_input,
                       array_unflatten(flat_input, original_input, is_primitive_predicate))
  /\ fpc' = IF fpc = "flattened" THEN "round_trip" ELSE "unflattened"
  /\ UNCHANGED <<original_input, is_primitive_predicate, flat_input, batchVars, schemaVars,
                 runVars, callVars, extraVars>>

\* list(unflatten(flat, x))
Unflatten ==
  /\ fpc = "given"
  /\ unflat' = Outcome("unflatten", flat_input, unflatten(flat_input, original_input))
  /\ fpc' = "unflattened"
  /\ UNCHANGED <<original_input, is_primitive_predicate, flat_input, batchVars, schemaVars,
                 runVars, callVars, extraVars>>

NextFlatten ==
  \/ ArrayFlatten
  \/ \E n \in 0..MaxFlat : GivenFlat(n)
  \/ ArrayUnflatten
  \/ Unflatten

(***************************************************************************)
(* flat_batched_compute (src/lilac/batch_utils.py) over chunks              *)
(* (src/lilac/utils.py): a lazy pipeline, one step per pull.               *)
(***************************************************************************)
\* flatten(inputs): the inner sequences one after the other.
RECURSIVE flatten(_)
flatten(inputs) ==
  IF inputs = <<>> THEN <<>> ELSE Head(inputs) \o flatten(Tail(inputs))

\* An input of the given inner lengths whose elements are numbered in flat order.
RECURSIVE NumberedFrom(_, _)
NumberedFrom(lens, start) ==
  IF lens = <<>> THEN <<>>
  ELSE <<[j \in 1..Head(lens) |-> start + j]>> \o NumberedFrom(Tail(lens), start + Head(lens))

\* list(itertools.islice(it, size + 1)): a chunk one element too long.
ChunkOneMore(flat, pos, size) ==
  SubSeq(flat, pos + 1, IF pos + size + 1 < Len(flat) THEN pos + size + 1 ELSE Len(flat))

\* list(itertools.islice(it, size)) with `it` at position pos of the flat input.
Chunk(flat, pos, size) ==
  SubSeq(flat, pos + 1, IF pos + size < Len(flat) THEN pos + size ELSE Len(flat))

\* The inner list is yielded one element early.
InnerCompleteEarly(part, orig) == Len(part) + 1 >= Len(orig)

\* `[next(flat_inputs_iter) for _ in original_input]` has run through original_input.
InnerComplete(part, orig) == Len(part) = Len(orig)

\* The inner sequence unflatten is rebuilding.
CurrentInner == batch_input[Len(yielded) + 1]

\* unflatten takes the next output of the batch f returned last.
TakeElement ==
  /\ bpc = "running"
  /\ Len(yielded) < Len(batch_input)
  /\ ~InnerComplete(partial, CurrentInner)
  /\ pending_outputs # <<>>
  /\ partial' = Append(partial, Head(pending_outputs))
  /\ pending_outputs' = Tail(pending_outputs)
  /\ UNCHANGED <<bpc, batch_input, batch_size, chunked, batches, f_outputs, yielded,
                 flatVars, schemaVars, runVars, callVars, extraVars>>

\* The outputs are used up: chunks cuts the next batch and f is called on it,
\* returning one output, "u" or "v", per element.
CallF ==
  /\ bpc = "running"
  /\ Len(yielded) < Len(batch_input)
  /\ ~InnerComplete(partial, CurrentInner)
  /\ pending_outputs = <<>>
  /\ LET batch == Chunk(flatten(batch_input), chunked, batch_size)
     IN  /\ batch # <<>>
         /\ batches' = Append(batches, batch)
         /\ chunked' = chunked + Len(batch)
         /\ \E out \in [1..Len(batch) -> {"u", "v"}] :
              /\ f_outputs' = Append(f_outputs, out)
              /\ pending_outputs' = out
  /\ UNCHANGED <<bpc, batch_input, batch_size, partial, yielded, flatVars, schemaVars,
                 runVars, callVars, extraVars>>

\* The outputs are used up and chunks has no batch left: next() raises.
Exhausted ==
  /\ bpc = "running"
  /\ Len(yielded) < Len(batch_input)
  /\ ~InnerComplete(partial, CurrentInner)
  /\ pending_outputs = <<>>
  /\ Chunk(flatten(batch_input), chunked, batch_size) = <<>>
  /\ bpc' = "raised"
  /\ UNCHANGED <<batch_input, batch_size, chunked, batches, f_outputs, pending_outputs,
                 partial, yielded, flatVars, schemaVars, runVars, callVars, extraVars>>

\* unflatten yields the inner list it has rebuilt.
YieldInner ==
  /\ bpc = "running"
  /\ Len(yielded) < Len(batch_input)
  /\ InnerComplete(partial, CurrentInner)
  /\ yielded' = Append(yielded, partial)
  /\ partial' = <<>>
  /\ UNCHANGED <<bpc, batch_input, batch_size, chunked, batches, f_outputs,
                 pending_outputs, flatVars, schemaVars, runVars, callVars, extraVars>>

\* original_inputs is used up: the generator returns.
FinishBatched ==
  /\ bpc = "running"
  /\ Len(yielded) = Len(batch_input)
  /\ bpc' = "done"
  /\ UNCHANGED <<batch_input, batch_size, chunked, batches, f_outputs, pending_outputs,
                 partial, yielded, flatVars, schemaVars, runVars, callVars, extraVars>>

NextBatched ==
  \/ TakeElement
  \/ CallF
  \/ Exhausted
  \/ YieldInner
  \/ FinishBatched

\* No flat_batched_compute call.
NoBatched ==
  /\ bpc = "idle"
  /\ batch_input = <<>>
  /\ batch_size = 1
  /\ chunked = 0
  /\ batches = <<>>
  /\ f_outputs = <<>>
  /\ pending_outputs = <<>>
  /\ partial = <<>>
  /\ yielded = <<>>

(***************************************************************************)
(* Field and Schema (src/src/schema.py).                                   *)
(***************************************************************************)
\* Path components: a field name, the wildcard, an integer index (written
\* with a leading "#", which no field name has).
FieldNames == {<<"a">>, <<"x">>}
\* isinstance(path_part, int)
IsIndex(part) == part \in {<<"#", "0">>}

\* The DataType values of the model; NoneValue stands for a dtype not given.
DataTypes == {"string", "string_span", "struct", "list"}

\* A Field: dtype, fields (a dict, empty when None or {}), repeated_field
\* (<<>> when None, else <<field>>), and whether refers_to is set.
FieldRecord(r, f, d, ref) ==
  [dtype |-> d, fields |-> f, repeated_field |-> r, refers_to |-> ref]

\* infer_default_dtype without its else branch: a dtype that is not given
\* and cannot be inferred stays None.
InferOrNone(r, f, d) ==
  IF d # NoneValue THEN d ELSE IF r # <<>> THEN "list" ELSE IF f # EmptyDict THEN "struct"
  ELSE NoneValue

\* The raises of infer_default_dtype.
DtypeError(r, f, d) ==
  \/ d # NoneValue /\ f # EmptyDict /\ d # "struct"
  \/ d # NoneValue /\ r # <<>> /\ d # "list"
  \/ d = NoneValue /\ r = <<>> /\ f = EmptyDict

\* Field(repeated_field=r, fields=f, dtype=d, refers_to=...): the validators
\* in declaration order; ok is FALSE when one of them raises.
Field(r, f, d, ref) ==
  LET dtype == InferOrNone(r, f, d)
  IN  [ok |-> /\ ~(f # EmptyDict /\ r # <<>>)
              /\ ~DtypeError(r, f, d)
              /\ ~(dtype = "string_span" /\ ~ref),
       val |-> FieldRecord(r, f, dtype, ref)]

\* The fields of exactly n nodes that can be constructed.
RECURSIVE FieldsOfSize(_), FieldDictsOfSize(_, _)
FieldsOfSize(n) ==
  IF n = 1
  THEN {Field(<<>>, EmptyDict, d, d = "string_span").val : d \in DataTypes}
  ELSE {Field(<<c>>, EmptyDict, NoneValue, FALSE).val : c \in FieldsOfSize(n - 1)}
       \cup {Field(<<>>, f, NoneValue, FALSE).val : f \in FieldDictsOfSize(FieldNames, n - 1)}
\* The non-empty dicts over the given names whose fields have m nodes in all.
FieldDictsOfSize(names, m) ==
  IF names = {} \/ m < 1 THEN {}
  ELSE LET name == CHOOSE nm \in names : TRUE
           others == FieldDictsOfSize(names \ {name}, m)
       IN  others
           \cup {Put(EmptyDict, name, c) : c \in FieldsOfSize(m)}
           \cup UNION {{Put(rest, name, c) :
                          c \in FieldsOfSize(j),
                          rest \in FieldDictsOfSize(names \ {name}, m - j)} : j \in 1..(m - 1)}

\* The arguments a caller may construct a Field with.
FieldArgs ==
  [repeated_field : {<<>>} \cup UNION {{<<c>> : c \in FieldsOfSize(n)} : n \in 1..MaxChildNodes},
   fields : {EmptyDict} \cup UNION {FieldDictsOfSize(FieldNames, m) : m \in 1..MaxChildNodes},
   dtype : {NoneValue} \cup DataTypes,
   refers_to : BOOLEAN]

\* Field(**field_args) returns or raises.
ConstructField ==
  /\ spc = "field_start"
  /\ LET made == Field(field_args.repeated_field, field_args.fields, field_args.dtype,
                       field_args.refers_to)
     IN  /\ spc' = IF made.ok THEN "field_made" ELSE "field_raised"
         /\ field' = IF made.ok THEN made.val ELSE field
  /\ UNCHANGED <<field_args, schema_fields, leafs_arg, leafs, vpath, path_match,
                 specific_path, vresult, flatVars, batchVars, runVars, callVars, extraVars>>

\* The components a path may be made of.
PathParts == FieldNames \cup {PATH_WILDCARD, <<"#", "0">>}

\* `child_path = (*path, PATH_WILDCARD)` without the wildcard.
RepeatedPathSame(p) == p

\* `child_path = (*path, PATH_WILDCARD)`
RepeatedPath(p) == Append(p, PATH_WILDCARD)

\* `for name, child_field in field.fields.items(): q.append(((*path, name), child_field))`
RECURSIVE ChildEntries(_, _, _)
ChildEntries(p, fs, names) ==
  IF names = {} THEN <<>>
  ELSE LET name == CHOOSE nm \in names : TRUE
       IN  << <<Append(p, name), fs[name]>> >> \o ChildEntries(p, fs, names \ {name})

\* The `while q:` loop of compute_leafs on a queue of <<path, field>> pairs.
RECURSIVE LeafsLoop(_, _)
LeafsLoop(q, res) ==
  IF q = <<>> THEN res
  ELSE LET p == Head(q)[1]
           f == Head(q)[2]
       IN  IF f.dtype = "string_span" THEN LeafsLoop(Tail(q), Put(res, p, f))
           ELSE IF f.fields # EmptyDict
           THEN LeafsLoop(Tail(q) \o ChildEntries(p, f.fields, DOMAIN f.fields), res)
           ELSE IF f.repeated_field # <<>>
           THEN LeafsLoop(Append(Tail(q), <<RepeatedPath(p), f.repeated_field[1]>>), res)
           ELSE LeafsLoop(Tail(q), Put(res, p, f))

\* Schema.compute_leafs(leafs, {'fields': fields}); ok is FALSE when
\* Field(fields=fields) raises.
compute_leafs(given, fs) ==
  IF given # EmptyDict THEN [ok |-> TRUE, val |-> given]
  ELSE LET root == Field(<<>>, fs, NoneValue, FALSE)
       IN  [ok |-> root.ok,
            val |-> IF root.ok THEN LeafsLoop(<< <<(<<>>), root.val>> >>, EmptyDict)
                    ELSE EmptyDict]

\* The loop of validate_path_against_schema and the test after it: cur is
\* <<field>>, or <<>> once `field` is None.
RECURSIVE ValidateLoop(_, _)
ValidateLoop(cur, p) ==
  IF cur = <<>> THEN "raised"
  ELSE IF p = <<>> THEN IF cur[1].dtype \in {"struct", "list"} THEN "raised" ELSE "ok"
  ELSE IF IsIndex(Head(p)) \/ Head(p) = PATH_WILDCARD
  THEN IF cur[1].dtype # "list" THEN "raised"
       ELSE ValidateLoop(cur[1].repeated_field, Tail(p))
  ELSE IF cur[1].dtype # "struct" THEN "raised"
       ELSE IF Head(p) \notin DOMAIN cur[1].fields THEN "raised"
       ELSE ValidateLoop(<<cur[1].fields[Head(p)]>>, Tail(p))

\* validate_path_against_schema(path, schema, msg)
validate_path_against_schema(p, fs) ==
  IF p = <<>> THEN "raised"
  ELSE LET root == Field(<<>>, fs, NoneValue, FALSE)
       IN  IF root.ok THEN ValidateLoop(<<root.val>>, p) ELSE "raised"

\* A `leafs` argument a Schema may be constructed with.
GivenLeafs == Put(EmptyDict, << <<"x">> >>, Field(<<>>, EmptyDict, "string", FALSE).val)

\* Schema(fields=..., leafs=...) returns or raises.
ConstructSchema ==
  /\ spc = "schema_start"
  /\ LET made == compute_leafs(leafs_arg, schema_fields)
     IN  /\ spc' = IF made.ok THEN "schema_made" ELSE "schema_raised"
         /\ leafs' = made.val
  /\ UNCHANGED <<field_args, field, schema_fields, leafs_arg, vpath, path_match,
                 specific_path, vresult, flatVars, batchVars, runVars, callVars, extraVars>>

\* validate_path_against_schema(p, schema, msg) returns or raises.
ValidatePath(p) ==
  /\ spc = "schema_made"
  /\ spc' = "validated"
  /\ vpath' = p
  /\ vresult' = validate_path_against_schema(p, schema_fields)
  /\ UNCHANGED <<field_args, field, schema_fields, leafs_arg, leafs, path_match,
                 specific_path, flatVars, batchVars, runVars, callVars, extraVars>>

NextSchema ==
  \/ ConstructSchema
  \/ \E p \in SeqsUpTo(PathParts, MaxPathLen) : ValidatePath(p)

\* A pattern component that matches nothing but itself.
NeverWildcard(part) == FALSE

\* `if path_match_p == PATH_WILDCARD: continue`
IsWildcard(part) == part = PATH_WILDCARD

\* `if isinstance(p, str): p = (p,)`
WrapStr(p) == IF p.str THEN <<p.val>> ELSE p.val

\* The zip loop of column_paths_match over paths of equal length.
RECURSIVE MatchLoop(_, _)
MatchLoop(pm, sp) ==
  IF pm = <<>> THEN TRUE
  ELSE IF IsWildcard(Head(pm)) THEN MatchLoop(Tail(pm), Tail(sp))
  ELSE IF Head(pm) # Head(sp) THEN FALSE
  ELSE MatchLoop(Tail(pm), Tail(sp))

\* column_paths_match(path_match, specific_path)
column_paths_match(pm, sp) ==
  IF Len(WrapStr(pm)) # Len(WrapStr(sp)) THEN FALSE
  ELSE MatchLoop(WrapStr(pm), WrapStr(sp))

\* The paths column_paths_match may be given: tuples, and strings.
MatchArgs ==
  {[str |-> FALSE, val |-> v] : v \in SeqsUpTo(PathParts, MaxPathLen)}
  \cup {[str |-> TRUE, val |-> v] : v \in {<<"a">>, <<"*">>, <<"a", ".", "x">>}}

\* column_paths_match(path_match, specific_path) returns.
ColumnPathsMatch ==
  /\ spc = "match_start"
  /\ spc' = "matched"
  /\ vresult' = IF column_paths_match(path_match, specific_path) THEN "true" ELSE "false"
  /\ UNCHANGED <<field_args, field, schema_fields, leafs_arg, leafs, vpath, path_match,
                 specific_path, flatVars, batchVars, runVars, callVars, extraVars>>

\* No Field, Schema, validate_path_against_schema or column_paths_match call.
NoSchema ==
  /\ spc = "idle"
  /\ field_args = FieldRecord(<<>>, EmptyDict, NoneValue, FALSE)
  /\ field = FieldRecord(<<>>, EmptyDict, NoneValue, FALSE)
  /\ schema_fields = EmptyDict
  /\ leafs_arg = EmptyDict
  /\ leafs = EmptyDict
  /\ vpath = <<>>
  /\ path_match = [str |-> FALSE, val |-> <<>>]
  /\ specific_path = [str |-> FALSE, val |-> <<>>]
  /\ vresult = "none"

\* No flatten / unflatten call.
NoFlatten ==
  /\ fpc = "idle"
  /\ original_input = List(<<>>)
  /\ is_primitive_predicate = "is_primitive"
  /\ flat_input = <<>>
  /\ unflat = NoOutcome

(***************************************************************************)
(* normalize_path called on a path and on its own result.                  *)
(***************************************************************************)
\* normalize_path(path) returns.
NormalizePath ==
  /\ npc = "start"
  /\ npc' = "once"
  /\ normalized' = normalize_path(norm_path)
  /\ UNCHANGED <<norm_path, renormalized, kpc, store, query, topk_k, topk_keys, tie_break,
                 topk_result, keys_again, topk_again, apc, arrow_schema, back_fields,
                 flatVars, batchVars, schemaVars, runVars, callVars>>

\* normalize_path(normalize_path(path)) returns: the argument is the tuple
\* the first call returned.
NormalizeAgain ==
  /\ npc = "once"
  /\ npc' = "twice"
  /\ renormalized' = normalize_path([str |-> FALSE, val |-> normalized])
  /\ UNCHANGED <<norm_path, normalized, kpc, store, query, topk_k, topk_keys, tie_break,
                 topk_result, keys_again, topk_again, apc, arrow_schema, back_fields,
                 flatVars, batchVars, schemaVars, runVars, callVars>>

(***************************************************************************)
(* Conversion of a Schema to an arrow schema and back.  An arrow type is a *)
(* record: t is "struct", "list" or the name of a primitive arrow type,    *)
(* fields the children of a struct, value <<the element type>> of a list.  *)
(***************************************************************************)
\* schema.py:21  UUID_COLUMN = '__rowid__'
UUID_COLUMN == <<"__rowid__">>

\* dtype_to_arrow_dtype: the arrow type of a dtype; "raise" for a dtype the
\* chain of tests does not name, and for TIME, where pa.time64() is called
\* without the unit it requires.
dtype_to_arrow_dtype(d) ==
  CASE d = "string" -> "string"
    [] d = "boolean" -> "bool"
    [] d \in {"float16", "float32", "float64", "int8", "int16", "int32", "int64",
              "uint8", "uint16", "uint32", "uint64", "binary"} -> d
    [] d = "date" -> "date64"
    [] d = "timestamp" -> "timestamp[us]"
    [] d = "interval" -> "duration[us]"
    [] OTHER -> "raise"

\* _schema_to_arrow_schema_impl on a Field; ok is FALSE when it raises.
RECURSIVE schema_to_arrow_schema_impl(_)
schema_to_arrow_schema_impl(f) ==
  IF f.fields # EmptyDict
  THEN LET kids == [n \in DOMAIN f.fields |-> schema_to_arrow_schema_impl(f.fields[n])]
       IN  [ok |-> \A n \in DOMAIN kids : kids[n].ok,
            val |-> [t |-> "struct", fields |-> [n \in DOMAIN kids |-> kids[n].val],
                     value |-> <<>>]]
  ELSE IF f.repeated_field # <<>>
  THEN LET elem == schema_to_arrow_schema_impl(f.repeated_field[1])
       IN  [ok |-> elem.ok,
            val |-> [t |-> "list", fields |-> EmptyDict, value |-> <<elem.val>>]]
  ELSE IF f.dtype = "string_span"
  THEN [ok |-> TRUE,
        val |-> [t |-> "struct",
                 fields |-> Put(Put(EmptyDict, <<"start">>,
                                    [t |-> "int32", fields |-> EmptyDict, value |-> <<>>]),
                                <<"end">>,
                                [t |-> "int32", fields |-> EmptyDict, value |-> <<>>]),
                 value |-> <<>>]]
  ELSE [ok |-> dtype_to_arrow_dtype(f.dtype) # "raise",
        val |-> [t |-> dtype_to_arrow_dtype(f.dtype), fields |-> EmptyDict, value |-> <<>>]]

\* schema_to_arrow_schema on a Schema with the given (non-empty) fields: the
\* arrow type of every field, and pa.binary(16) for the UUID column.
schema_to_arrow_schema(fs) ==
  LET made == schema_to_arrow_schema_impl(FieldRecord(<<>>, fs, "struct", FALSE))
  IN  [ok |-> made.ok,
       val |-> [n \in DOMAIN fs |->
                  IF n = UUID_COLUMN
                  THEN [t |-> "fixed_size_binary[16]", fields |-> EmptyDict, value |-> <<>>]
                  ELSE made.val.fields[n]]]

\* arrow_dtype_to_dtype: the dtype of a primitive arrow type, "raise" for
\* one the chain of tests does not name.
arrow_dtype_to_dtype(t) ==
  CASE t \in {"int8", "int16", "int32", "int64", "uint8", "uint16", "uint32", "uint64",
              "float16", "float32", "float64", "string"} -> t
    [] t \in {"time32[s]", "time64[us]"} -> "time"
    [] t \in {"date32", "date64"} -> "date"
    [] t = "timestamp[us]" -> "timestamp"
    [] t = "duration[us]" -> "interval"
    [] t \in {"binary", "fixed_size_binary[16]"} -> "binary"
    [] t = "bool" -> "boolean"
    [] OTHER -> "raise"

\* _arrow_schema_to_schema_impl on an arrow type: the Field constructed, ok
\* FALSE when the conversion or a Field constructor raises.
RECURSIVE arrow_schema_to_schema_impl(_)
arrow_schema_to_schema_impl(a) ==
  IF a.t = "struct"
  THEN LET kids == [n \in DOMAIN a.fields |-> arrow_schema_to_schema_impl(a.fields[n])]
           made == Field(<<>>, [n \in DOMAIN kids |-> kids[n].val], NoneValue, FALSE)
       IN  [ok |-> made.ok /\ \A n \in DOMAIN kids : kids[n].ok, val |-> made.val]
  ELSE IF a.t = "list"
  THEN LET elem == arrow_schema_to_schema_impl(a.value[1])
           made == Field(<<elem.val>>, EmptyDict, NoneValue, FALSE)
       IN  [ok |-> made.ok /\ elem.ok, val |-> made.val]
  ELSE LET made == Field(<<>>, EmptyDict, arrow_dtype_to_dtype(a.t), FALSE)
       IN  [ok |-> made.ok /\ arrow_dtype_to_dtype(a.t) # "raise", val |-> made.val]

\* The field with every STRING below it given dtype d.
RECURSIVE Retype(_, _)
Retype(f, d) ==
  [dtype |-> IF f.dtype = "string" THEN d ELSE f.dtype,
   fields |-> [n \in DOMAIN f.fields |-> Retype(f.fields[n], d)],
   repeated_field |-> [i \in DOMAIN f.repeated_field |-> Retype(f.repeated_field[i], d)],
   refers_to |-> f.refers_to]

\* schema_to_arrow_schema(schema) returns or raises.
SchemaToArrow ==
  /\ spc = "schema_made"
  /\ apc = "start"
  /\ LET made == schema_to_arrow_schema(schema_fields)
     IN  /\ apc' = IF made.ok THEN "arrow" ELSE "arrow_raised"
         /\ arrow_schema' = IF made.ok THEN made.val ELSE arrow_schema
  /\ UNCHANGED <<npc, norm_path, normalized, renormalized, kpc, store, query, topk_k,
                 topk_keys, tie_break, topk_result, keys_again, topk_again, back_fields,
                 flatVars, batchVars, schemaVars, runVars, callVars>>

\* arrow_schema_to_schema(arrow_schema) returns or raises.
ArrowToSchema ==
  /\ apc = "arrow"
  /\ LET made == arrow_schema_to_schema_impl(
                   [t |-> "struct", fields |-> arrow_schema, value |-> <<>>])
     IN  /\ apc' = IF made.ok THEN "back" ELSE "back_raised"
         /\ back_fields' = IF made.ok THEN made.val.fields ELSE back_fields
  /\ UNCHANGED <<npc, norm_path, normalized, renormalized, kpc, store, query, topk_k,
                 topk_keys, tie_break, topk_result, keys_again, topk_again, arrow_schema,
                 flatVars, batchVars, schemaVars, runVars, callVars>>

(***************************************************************************)
(* VectorStore.topk: the store is an insertion-ordered list of <<key,       *)
(* vector>> entries with distinct keys; a vector has two coordinates,      *)
(* written in hundredths, so scores are in ten-thousandths.                *)
(***************************************************************************)
\* The similarity of a stored vector and the query: their dot product, which
\* for vectors of length one is the cosine similarity.
Score(v, q) == v[1] * q[1] + v[2] * q[2]

\* The sequences of distinct elements of S.
DistinctSeqs(S) ==
  {v \in SeqsUpTo(S, Cardinality(S)) : \A i, j \in 1..Len(v) : i # j => v[i] # v[j]}

\* A topk that scores the whole store whatever `keys` says.
AllCandidates(st, ks, tb) == [i \in 1..Len(st) |-> st[i][1]]

\* The keys topk scores, in the order that decides between equal scores:
\* every stored key in insertion order when `keys` is None; the restricted
\* keys otherwise, in insertion order or in the order of the argument.
Candidates(st, ks, tb) ==
  IF ~ks.given THEN [i \in 1..Len(st) |-> st[i][1]]
  ELSE IF tb = "argument" THEN ks.val
  ELSE SelectSeq([i \in 1..Len(st) |-> st[i][1]],
                 LAMBDA key : \E j \in 1..Len(ks.val) : ks.val[j] = key)

\* topk(query, k, keys): the candidates with their scores, sorted by
\* descending score (stable), cut to the first k.
topk(st, q, kk, ks, tb) ==
  LET cands == Candidates(st, ks, tb)
      vec(key) == st[CHOOSE i \in 1..Len(st) : st[i][1] = key][2]
      ranked == SortDesc([i \in 1..Len(cands) |-> <<cands[i], Score(vec(cands[i]), q)>>])
  IN  SubSeq(ranked, 1, IF kk < Len(ranked) THEN kk ELSE Len(ranked))

\* store.topk(query, k, keys) returns.
Topk ==
  /\ kpc = "start"
  /\ kpc' = "ranked"
  /\ topk_result' = topk(store, query, topk_k, topk_keys, tie_break)
  /\ UNCHANGED <<npc, norm_path, normalized, renormalized, store, query, topk_k, topk_keys,
                 tie_break, keys_again, topk_again, apc, arrow_schema, back_fields,
                 flatVars, batchVars, schemaVars, runVars, callVars>>

\* store.topk(query, k, keys) is called once more with the same keys in
\* some order.
TopkAgain ==
  /\ kpc = "ranked"
  /\ topk_keys.given
  /\ kpc' = "ranked_again"
  /\ \E ks \in {v \in DistinctSeqs({topk_keys.val[j] : j \in 1..Len(topk_keys.val)}) :
                   Len(v) = Len(topk_keys.val)} :
       /\ keys_again' = ks
       /\ topk_again' = topk(store, query, topk_k, [given |-> TRUE, val |-> ks], tie_break)
  /\ UNCHANGED <<npc, norm_path, normalized, renormalized, store, query, topk_k, topk_keys,
                 tie_break, topk_result, apc, arrow_schema, back_fields,
                 flatVars, batchVars, schemaVars, runVars, callVars>>

\* No normalize_path, topk or arrow conversion call.
NoExtra ==
  /\ npc = "idle"
  /\ norm_path = [str |-> FALSE, val |-> <<>>]
  /\ normalized = <<>>
  /\ renormalized = <<>>
  /\ kpc = "idle"
  /\ store = <<>>
  /\ query = <<0, 0>>
  /\ topk_k = 0
  /\ topk_keys = [given |-> FALSE, val |-> <<>>]
  /\ tie_break = "insertion"
  /\ topk_result = <<>>
  /\ keys_again = <<>>
  /\ topk_again = <<>>
  /\ apc = "idle"
  /\ arrow_schema = EmptyDict
  /\ back_fields = EmptyDict

\* No library call outside the clustering pipeline.
NoLib == NoFlatten /\ NoBatched /\ NoSchema /\ NoExtra

(***************************************************************************)
(* Initial states.                                                         *)
(***************************************************************************)
Embeddings == {NoneValue, "", "jina-v2-small"}

\* `path` arguments: dotted strings (as characters) and tuples of components.
PathArgs ==
  {[str |-> TRUE, val |-> v] :
     v \in {<<"t">>, <<"d", ".", "*">>, <<"d", ".", "*", ".", "t">>, <<"*">>, <<>>}}
  \cup
  {[str |-> FALSE, val |-> v] :
     v \in {<< <<"t">> >>, << <<"d">>, <<"*">> >>, << <<"d">>, <<"*">>, <<"t">> >>, <<>>}}

\* `output_path` arguments; <<>> stands for None.
OutputPaths == {<<>>, << <<"o">> >>}

\* Schemas the dataset may have before the call.
BaseFields == {<< <<"t">> >>, << <<"d">>, <<"*">>, <<"t">> >>}
Schemas ==
  {BaseFields \cup extra :
     extra \in SUBSET {<< <<"o">> >>, << <<"t", "__", "cluster">> >>}}

\* No run of _compute_topics.
NoRun ==
  /\ items = <<>>
  /\ tpc = "idle"
  /\ consumed = 0
  /\ groups = EmptyDict
  /\ group_keys = <<>>
  /\ cluster_locks = EmptyDict
  /\ delayed_compute = <<>>
  /\ topics = EmptyDict
  /\ pc = <<>>
  /\ attempt = <<>>
  /\ result = <<>>
  /\ output = <<>>
  /\ submitted = 0
  /\ started = 0
  /\ active = 0
  /\ fnCalls = [c \in ClusterIds |-> 0]
  /\ fnReturns = [c \in ClusterIds |-> 0]
  /\ fnArgs = {}

\* cluster() is called.
InitCluster ==
  /\ NoLib
  /\ cpc = "start"
  /\ embedding \in Embeddings
  /\ path_arg \in PathArgs
  /\ path = <<>>
  /\ output_path \in OutputPaths
  /\ overwrite \in BOOLEAN
  /\ cluster_output_path = <<>>
  /\ clusters_exists = FALSE
  /\ schema \in Schemas
  /\ calls = <<>>
  /\ NoRun

\* A call of cluster('t', 'jina-v2-small') that has reached its topic transform.
InTopicTransform ==
  /\ cpc = "topics"
  /\ embedding = "jina-v2-small"
  /\ path_arg = [str |-> TRUE, val |-> <<"t">>]
  /\ path = << <<"t">> >>
  /\ output_path = <<>>
  /\ overwrite = FALSE
  /\ cluster_output_path = << <<"t", "__", "cluster">> >>
  /\ clusters_exists = FALSE
  /\ schema = BaseFields \cup {<< <<"t", "__", "cluster">> >>}
  /\ calls = << [stage |-> "clusters", output_path |-> << <<"t", "__", "cluster">> >>,
                 overwrite |-> FALSE],
                [stage |-> "topics",
                 output_path |-> << <<"t", "__", "cluster">>, <<"topic">> >>,
                 overwrite |-> FALSE] >>

\* The host hands an item stream to _compute_topics.
InitRun ==
  /\ NoLib
  /\ InTopicTransform
  /\ items \in SeqsUpTo(Items, MaxItems)
  /\ tpc = "grouping"
  /\ consumed = 0
  /\ groups = EmptyDict
  /\ group_keys = <<>>
  /\ cluster_locks = EmptyDict
  /\ delayed_compute = <<>>
  /\ topics = EmptyDict
  /\ pc = <<>>
  /\ attempt = <<>>
  /\ result = <<>>
  /\ output = <<>>
  /\ submitted = 0
  /\ started = 0
  /\ active = 0
  /\ fnCalls = [c \in ClusterIds |-> 0]
  /\ fnReturns = [c \in ClusterIds |-> 0]
  /\ fnArgs = {}

\* The pool has been handed `submitted` tasks.
InitPool ==
  /\ NoLib
  /\ InTopicTransform
  /\ items = <<>>
  /\ tpc = "dispatch"
  /\ consumed = 0
  /\ groups = EmptyDict
  /\ group_keys = <<>>
  /\ cluster_locks = EmptyDict
  /\ delayed_compute = <<>>
  /\ topics = EmptyDict
  /\ pc = <<>>
  /\ attempt = <<>>
  /\ result = <<>>
  /\ output = <<>>
  /\ submitted \in 0..MaxPoolTasks
  /\ started = 0
  /\ active = 0
  /\ fnCalls = [c \in ClusterIds |-> 0]
  /\ fnReturns = [c \in ClusterIds |-> 0]
  /\ fnArgs = {}

\* The host hands a longer item stream to _compute_topics: three cluster ids,
\* a text that is empty or not, one membership probability.
InitGroup ==
  /\ NoLib
  /\ InTopicTransform
  /\ items \in SeqsUpTo([cluster_id : {0, 1, 2}, text : {"", "a"}, prob : {1}],
                       MaxGroupItems)
  /\ tpc = "grouping"
  /\ consumed = 0
  /\ groups = EmptyDict
  /\ group_keys = <<>>
  /\ cluster_locks = EmptyDict
  /\ delayed_compute = <<>>
  /\ topics = EmptyDict
  /\ pc = <<>>
  /\ attempt = <<>>
  /\ result = <<>>
  /\ output = <<>>
  /\ submitted = 0
  /\ started = 0
  /\ active = 0
  /\ fnCalls = [c \in ClusterIds |-> 0]
  /\ fnReturns = [c \in ClusterIds |-> 0]
  /\ fnArgs = {}

\* The grouping loop and the sort that ends it.
NextGroup ==
  \/ GroupItem
  \/ SortAndDispatch

\* No call of cluster().
NoCluster ==
  /\ cpc = "idle"
  /\ embedding = NoneValue
  /\ path_arg = [str |-> FALSE, val |-> <<>>]
  /\ path = <<>>
  /\ output_path = <<>>
  /\ overwrite = FALSE
  /\ cluster_output_path = <<>>
  /\ clusters_exists = FALSE
  /\ schema = {}
  /\ calls = <<>>

\* A caller holds a nested value and a leaf predicate.
InitFlatten ==
  /\ NoCluster
  /\ NoRun
  /\ fpc = "start"
  /\ original_input \in Values
  /\ is_primitive_predicate \in LeafPredicates
  /\ flat_input = <<>>
  /\ unflat = NoOutcome
  /\ NoBatched
  /\ NoSchema
  /\ NoExtra

\* flat_batched_compute(input, f, batch_size) is called and its result iterated.
InitBatched ==
  /\ NoCluster
  /\ NoRun
  /\ NoFlatten
  /\ bpc = "running"
  /\ batch_input \in {NumberedFrom(lens, 0) : lens \in SeqsUpTo(0..MaxInnerLen, MaxInner)}
  /\ batch_size \in 0..MaxBatchSize
  /\ chunked = 0
  /\ batches = <<>>
  /\ f_outputs = <<>>
  /\ pending_outputs = <<>>
  /\ partial = <<>>
  /\ yielded = <<>>
  /\ NoSchema
  /\ NoExtra

\* Field(...) is called.
InitField ==
  /\ NoCluster
  /\ NoRun
  /\ NoFlatten
  /\ NoBatched
  /\ spc = "field_start"
  /\ field_args \in FieldArgs
  /\ field = FieldRecord(<<>>, EmptyDict, NoneValue, FALSE)
  /\ schema_fields = EmptyDict
  /\ leafs_arg = EmptyDict
  /\ leafs = EmptyDict
  /\ vpath = <<>>
  /\ path_match = [str |-> FALSE, val |-> <<>>]
  /\ specific_path = [str |-> FALSE, val |-> <<>>]
  /\ vresult = "none"
  /\ NoExtra

\* Schema(fields=..., leafs=...) is called.
InitSchema ==
  /\ NoCluster
  /\ NoRun
  /\ NoFlatten
  /\ NoBatched
  /\ spc = "schema_start"
  /\ field_args = FieldRecord(<<>>, EmptyDict, NoneValue, FALSE)
  /\ field = FieldRecord(<<>>, EmptyDict, NoneValue, FALSE)
  /\ schema_fields \in
       {EmptyDict} \cup UNION {FieldDictsOfSize(FieldNames, m) : m \in 1..MaxSchemaNodes}
  /\ leafs_arg \in {EmptyDict, GivenLeafs}
  /\ leafs = EmptyDict
  /\ vpath = <<>>
  /\ path_match = [str |-> FALSE, val |-> <<>>]
  /\ specific_path = [str |-> FALSE, val |-> <<>>]
  /\ vresult = "none"
  /\ NoExtra

\* column_paths_match(path_match, specific_path) is called.
InitMatch ==
  /\ NoCluster
  /\ NoRun
  /\ NoFlatten
  /\ NoBatched
  /\ spc = "match_start"
  /\ field_args = FieldRecord(<<>>, EmptyDict, NoneValue, FALSE)
  /\ field = FieldRecord(<<>>, EmptyDict, NoneValue, FALSE)
  /\ schema_fields = EmptyDict
  /\ leafs_arg = EmptyDict
  /\ leafs = EmptyDict
  /\ vpath = <<>>
  /\ path_match \in MatchArgs
  /\ specific_path \in MatchArgs
  /\ vresult = "none"
  /\ NoExtra

\* normalize_path is called with a dotted string of up to MaxPathChars
\* characters or with a tuple of up to MaxPathLen components, one of which
\* holds a dot.
InitNormalize ==
  /\ NoCluster
  /\ NoRun
  /\ NoFlatten
  /\ NoBatched
  /\ NoSchema
  /\ npc = "start"
  /\ norm_path \in
       {[str |-> TRUE, val |-> v] : v \in SeqsUpTo({"a", ".", "*"}, MaxPathChars)}
       \cup {[str |-> FALSE, val |-> v] :
               v \in SeqsUpTo(PathParts \cup {<<"a", ".", "x">>}, MaxPathLen)}
  /\ normalized = <<>>
  /\ renormalized = <<>>
  /\ kpc = "idle"
  /\ store = <<>>
  /\ query = <<0, 0>>
  /\ topk_k = 0
  /\ topk_keys = [given |-> FALSE, val |-> <<>>]
  /\ tie_break = "insertion"
  /\ topk_result = <<>>
  /\ keys_again = <<>>
  /\ topk_again = <<>>
  /\ apc = "idle"
  /\ arrow_schema = EmptyDict
  /\ back_fields = EmptyDict

\* Schema(fields=...) is called with fields of up to MaxSchemaNodes nodes, one
\* of which may be the UUID column; the leaves generated as STRING have one
\* of the dtypes of the mapping table.
InitArrow ==
  /\ NoCluster
  /\ NoRun
  /\ NoFlatten
  /\ NoBatched
  /\ spc = "schema_start"
  /\ field_args = FieldRecord(<<>>, EmptyDict, NoneValue, FALSE)
  /\ field = FieldRecord(<<>>, EmptyDict, NoneValue, FALSE)
  /\ \E fs \in UNION {FieldDictsOfSize({<<"a">>, UUID_COLUMN}, m) : m \in 1..MaxSchemaNodes},
        d \in {"string", "boolean", "int8", "int16", "int32", "int64", "uint8", "uint16",
               "uint32", "uint64", "float16", "float32", "float64", "time", "date",
               "timestamp", "interval", "binary"} :
       schema_fields = Retype(FieldRecord(<<>>, fs, "struct", FALSE), d).fields
  /\ leafs_arg = EmptyDict
  /\ leafs = EmptyDict
  /\ vpath = <<>>
  /\ path_match = [str |-> FALSE, val |-> <<>>]
  /\ specific_path = [str |-> FALSE, val |-> <<>>]
  /\ vresult = "none"
  /\ npc = "idle"
  /\ norm_path = [str |-> FALSE, val |-> <<>>]
  /\ normalized = <<>>
  /\ renormalized = <<>>
  /\ kpc = "idle"
  /\ store = <<>>
  /\ query = <<0, 0>>
  /\ topk_k = 0
  /\ topk_keys = [given |-> FALSE, val |-> <<>>]
  /\ tie_break = "insertion"
  /\ topk_result = <<>>
  /\ keys_again = <<>>
  /\ topk_again = <<>>
  /\ apc = "start"
  /\ arrow_schema = EmptyDict
  /\ back_fields = EmptyDict

\* A store of up to MaxStored vectors, added under the keys a, b, c, ... in
\* that order, is asked for the top k of all its keys or of some of them.
InitTopk ==
  /\ NoCluster
  /\ NoRun
  /\ NoFlatten
  /\ NoBatched
  /\ NoSchema
  /\ npc = "idle"
  /\ norm_path = [str |-> FALSE, val |-> <<>>]
  /\ normalized = <<>>
  /\ renormalized = <<>>
  /\ kpc = "start"
  /\ \E vs \in SeqsUpTo({<<45, 89>>, <<60, 80>>, <<64, 77>>, <<-80, -60>>}, MaxStored) :
       store = [i \in 1..Len(vs) |-> <<<<"a", "b", "c", "d", "e">>[i], vs[i]>>]
  /\ query = <<89, 45>>
  /\ topk_k \in 0..MaxK
  /\ topk_keys \in
       {[given |-> FALSE, val |-> <<>>]}
       \cup {[given |-> TRUE, val |-> v] : v \in DistinctSeqs({store[i][1] : i \in 1..Len(store)})}
  /\ tie_break \in {"insertion", "argument"}
  /\ topk_result = <<>>
  /\ keys_again = <<>>
  /\ topk_again = <<>>
  /\ apc = "idle"
  /\ arrow_schema = EmptyDict
  /\ back_fields = EmptyDict

(***************************************************************************)
(* Specifications.                                                         *)
(***************************************************************************)
\* One run of _compute_topics.
Spec == InitRun /\ [][NextRun]_vars

\* One run of _compute_topics whose threads and consumer keep running.
FairSpec ==
  /\ Spec
  /\ WF_vars(GroupItem)
  /\ WF_vars(SortAndDispatch)
  /\ \A i \in 1..MaxItems :
       /\ WF_vars(i \in Tasks /\ StartTask(i))
       /\ WF_vars(i \in Tasks /\ ReturnNoLock(i))
       /\ WF_vars(i \in Tasks /\ ReturnCached(i))
       /\ WF_vars(i \in Tasks /\ EnterLock(i))
       /\ WF_vars(i \in Tasks /\ (FnRaise(i) \/ \E t \in TopicValues : FnReturn(i, t)))
  /\ WF_vars(YieldResult)
  /\ WF_vars(Finish)
  /\ WF_vars(RaiseError)

\* One call of cluster().
SpecCluster == InitCluster /\ [][NextCluster]_vars

\* The worker pool with more tasks than threads.
SpecPool == InitPool /\ [][NextPool]_vars

\* The grouping loop of _compute_topics over longer streams.
SpecGroup == InitGroup /\ [][NextGroup]_vars

\* A flatten / unflatten call.
SpecFlatten == InitFlatten /\ [][NextFlatten]_vars

\* A flat_batched_compute call whose result is iterated to the end.
SpecBatched == InitBatched /\ [][NextBatched]_vars

\* A Field(...) call.
SpecField == InitField /\ [][ConstructField]_vars

\* A Schema(...) call and a validate_path_against_schema call on the schema.
SpecSchema == InitSchema /\ [][NextSchema]_vars

\* A column_paths_match call.
SpecMatch == InitMatch /\ [][ColumnPathsMatch]_vars

\* A normalize_path call and a second call on its result.
SpecNormalize == InitNormalize /\ [][NormalizePath \/ NormalizeAgain]_vars

\* A Schema is constructed, converted to an arrow schema and converted back.
SpecArrow == InitArrow /\ [][ConstructSchema \/ SchemaToArrow \/ ArrowToSchema]_vars

\* A topk call and a second call with the keys in another order.
SpecTopk == InitTopk /\ [][Topk \/ TopkAgain]_vars

(***************************************************************************)
(* Sanity of the model.                                                    *)
(***************************************************************************)
TypeOK ==
  /\ tpc \in {"idle", "grouping", "dispatch", "done", "error"}
  /\ active = Cardinality({i \in Tasks : pc[i] \in {"ready", "calling"}})
  /\ started = Cardinality({i \in Tasks : pc[i] # "queued"})
  /\ \A c \in DOMAIN cluster_locks :
       cluster_locks[c] # 0 => pc[cluster_locks[c]] = "calling"

(***************************************************************************)
(* What the claims speak of, stated on the input and the history alone.    *)
(***************************************************************************)
\* An item that belongs in its group: non-negative cluster id, non-empty
\* text, membership probability present and not zero.
Qualifying(item) ==
  /\ item.cluster_id >= 0
  /\ item.text # ""
  /\ item.prob # NoProb
  /\ item.prob # 0

\* The items at positions with cluster id c that qualify.
QualifyingAt(c) ==
  {k \in 1..Len(items) : items[k].cluster_id = c /\ Qualifying(items[k])}

\* The topic cached for cluster id c, None when there is none.
TopicOf(c) == IF c \in DOMAIN topics THEN topics[c] ELSE NoTopic

\* The tasks that are inside topic_fn for cluster id c.
CallingFor(c) == {i \in Tasks : pc[i] = "calling" /\ delayed_compute[i] = c}

\* Number of positions of list g that hold the pair e.
CountIn(g, e) == Cardinality({j \in 1..Len(g) : g[j] = e})

\* Number of dataset.transform calls of a stage.
NumCalls(stage) == Cardinality({j \in 1..Len(calls) : calls[j].stage = stage})

(***************************************************************************)
(* Claims.                                                                 *)
(***************************************************************************)
\* C1: what the run has yielded is, position by position, the topic of the
\* cluster id of the input item at that position (None for an id without a
\* topic), and a run that completes has yielded exactly one output per item.
C1_OutputMatchesInput ==
  /\ \A k \in 1..Len(output) :
       /\ k <= Len(items)
       /\ output[k] = TopicOf(items[k].cluster_id)
  /\ tpc = "done" => Len(output) = Len(items)

\* A completed run over two items of two clusters with two different topics.
C1_Witness ==
  /\ tpc = "done"
  /\ Len(output) = 2
  /\ items[1].cluster_id # items[2].cluster_id
  /\ output[1] \in TopicValues
  /\ output[2] \in TopicValues
  /\ output[1] # output[2]

\* C2 as stated: for every cluster id the topic function is called at most
\* once, whether it returns or raises.
C2_CalledAtMostOnce == \A c \in ClusterIds : fnCalls[c] <= 1

\* C2 amended: for every cluster id the calls of the topic function never
\* overlap and at most one of them returns; no call for an id starts while
\* another is in progress or after one has returned.
C2_OneCallAtATimeOneReturn ==
  \A c \in ClusterIds : fnReturns[c] + Cardinality(CallingFor(c)) <= 1

\* Two workers of one cluster id: the first one's call raised, and a later
\* call returned the topic both of them got.
C2_Witness ==
  /\ Len(items) = 2
  /\ tpc = "done"
  /\ items[1].cluster_id = items[2].cluster_id
  /\ fnCalls[items[1].cluster_id] = 2
  /\ fnReturns[items[1].cluster_id] = 1
  /\ attempt[1] = 2
  /\ attempt[2] = 1

\* C3: every list the topic function was called with is non-empty, belongs
\* to a non-negative cluster id, and each of its entries is the (text,
\* probability) of an input item of that id with non-empty text and a
\* probability that is neither absent nor zero.
C3_OnlyQualifyingReachTopicFn ==
  \A call \in fnArgs :
    /\ call[1] >= 0
    /\ call[2] # <<>>
    /\ \A j \in 1..Len(call[2]) :
         /\ call[2][j][1] # ""
         /\ call[2][j][2] # 0
         /\ call[2][j][2] # NoProb
         /\ \E k \in QualifyingAt(call[1]) :
              call[2][j] = <<items[k].text, items[k].prob>>

\* The topic function was called for a cluster one of whose items was
\* filtered out.
C3_Witness ==
  \E call \in fnArgs :
    \E k \in 1..Len(items) :
      /\ items[k].cluster_id = call[1]
      /\ ~Qualifying(items[k])

\* C4: when some item qualifies, the run surfaces an error unless some call
\* of the topic function returns; the error comes from a task that used all
\* its attempts; and while no call has returned, no item of a cluster with a
\* qualifying member has been given None.
C4_AlwaysFailingSurfaces ==
  /\ (\E k \in 1..Len(items) : Qualifying(items[k]))
       => <>(tpc = "error" \/ \E c \in ClusterIds : fnReturns[c] > 0)
  /\ [](tpc = "error" => \E i \in Tasks : pc[i] = "failed" /\ attempt[i] = MaxAttempts)
  /\ []((\A c \in ClusterIds : fnReturns[c] = 0)
          => \A k \in 1..Len(output) :
               QualifyingAt(items[k].cluster_id) # {} => output[k] # NoTopic)

\* The error has surfaced, no call of the topic function ever returned, and
\* an item of a cluster without a group had been yielded before.
C4_Witness ==
  /\ tpc = "error"
  /\ \A c \in ClusterIds : fnReturns[c] = 0
  /\ \E c \in ClusterIds : fnCalls[c] = MaxAttempts
  /\ Len(output) = 1

\* C5: a task fails only when its tenth attempt raised; a task of a cluster
\* with a group that ends after fewer raises has the cluster's topic as its
\* result, and that is what the run yields at its position.
C5_TransientFailureRecovered ==
  \A i \in Tasks :
    /\ pc[i] = "failed" => attempt[i] = MaxAttempts
    /\ (pc[i] = "done" /\ QualifyingAt(delayed_compute[i]) # {})
         => /\ result[i] \in TopicValues
            /\ result[i] = TopicOf(delayed_compute[i])
            /\ i <= Len(output) => output[i] = result[i]

\* A task whose first nine attempts raised and whose tenth returned a topic,
\* which the run has yielded.
C5_Witness ==
  /\ 1 \in Tasks
  /\ Len(items) = 1
  /\ pc[1] = "done"
  /\ attempt[1] = MaxAttempts
  /\ fnCalls[items[1].cluster_id] = MaxAttempts
  /\ output = <<result[1]>>
  /\ result[1] \in TopicValues

\* C6: for a cluster id none of whose items qualifies, the topic function is
\* never called and every output at the position of an item of that id is
\* None.
C6_EmptyGroupGetsNone ==
  \A c \in ClusterIds :
    QualifyingAt(c) = {}
      => /\ fnCalls[c] = 0
         /\ \A k \in 1..Len(output) : items[k].cluster_id = c => output[k] = NoTopic

\* A completed run with an item of a non-negative cluster id whose group is
\* empty, beside a cluster the topic function was called for.
C6_Witness ==
  /\ tpc = "done"
  /\ fnArgs # {}
  /\ \E k \in 1..Len(output) :
       /\ items[k].cluster_id >= 0
       /\ QualifyingAt(items[k].cluster_id) = {}
       /\ output[k] = NoTopic

\* C7: a list the topic function was called with for cluster id c holds
\* exactly the (text, probability) pairs of the qualifying items of id c, each
\* as often as it occurs among them, in non-increasing order of probability.
C7_RankedQualifyingPairs ==
  \A call \in fnArgs :
    /\ \A j \in 1..(Len(call[2]) - 1) : call[2][j][2] >= call[2][j + 1][2]
    /\ \A t \in Texts, q \in Probs :
         CountIn(call[2], <<t, q>>) =
           Cardinality({k \in QualifyingAt(call[1]) :
                          items[k].text = t /\ items[k].prob = q})

\* The topic function was called with a list of two whose order is the
\* reverse of the input order.
C7_Witness ==
  \E call \in fnArgs :
    /\ Len(call[2]) = 2
    /\ Len(items) = 2
    /\ items[1].prob < items[2].prob
    /\ call[2] = << <<items[2].text, items[2].prob>>, <<items[1].text, items[1].prob>> >>

\* C8: at most _NUM_THREADS tasks are being executed at any moment.
C8_PoolBounded == active <= NUM_THREADS

\* Every worker thread is busy and a task is waiting for one.
C8_Witness ==
  /\ active = NUM_THREADS
  /\ started < submitted

\* The arguments cluster() is to reject: no embedding, or a path whose last
\* component is the wildcard.
RejectedArgs ==
  \/ embedding = NoneValue
  \/ embedding = ""
  \/ LET p == normalize_path(path_arg)
     IN  IF p = <<>> THEN FALSE ELSE p[Len(p)] = <<"*">>

\* C9: a call of cluster() with no embedding, or with a path whose last
\* component is the wildcard, makes no dataset.transform call, leaves the
\* schema as it is and goes nowhere but to its error.
C9_RejectedBeforeTransform ==
  [][RejectedArgs => /\ calls' = <<>>
                     /\ schema' = schema
                     /\ cpc' \in {"start", "rejected"}]_vars

\* A call with an embedding and a dotted path ending in the wildcard has
\* been rejected.
C9_Witness ==
  /\ cpc = "rejected"
  /\ embedding = "jina-v2-small"
  /\ path_arg.str
  /\ path = << <<"d">>, <<"*">> >>
  /\ calls = <<>>

\* C10: a call of cluster() that passed its argument checks and is past the
\* cluster-assignment stage has invoked the cluster-assignment transform
\* once if the cluster field was absent or overwrite is true and not at all
\* otherwise; it is never invoked twice, and never after the topic transform.
C10_ClusterStageOnceOrSkipped ==
  /\ NumCalls("clusters") <= 1
  /\ NumCalls("topics") <= 1
  /\ cpc \in {"topics_pending", "topics", "done", "failed"}
       => (NumCalls("clusters") = 1 <=> (~clusters_exists \/ overwrite))
  /\ \A i, j \in 1..Len(calls) :
       (calls[i].stage = "clusters" /\ calls[j].stage = "topics") => i < j

\* A finished call that overwrote an existing cluster field: both transforms
\* were invoked, the cluster-assignment one first.
C10_Witness ==
  /\ cpc = "done"
  /\ clusters_exists
  /\ overwrite
  /\ Len(calls) = 2
  /\ calls[1].stage = "clusters"
  /\ calls[2].stage = "topics"
(***************************************************************************)
(* Grouping of a stream sorted by cluster id.                              *)
(***************************************************************************)
\* The cluster ids of the qualifying items among the first k items.
QualIds(k) ==
  LET q == SelectSeq(SubSeq(items, 1, k), Qualifying)
  IN  [j \in 1..Len(q) |-> q[j].cluster_id]

\* A sequence of ids in non-decreasing order.
SortedIds(s) == \A i, j \in 1..Len(s) : i < j => s[i] <= s[j]

\* The maximal contiguous runs of a sequence of ids, as <<id, length>> pairs.
RECURSIVE RunsOf(_)
RunsOf(s) ==
  IF s = <<>> THEN <<>>
  ELSE LET r == RunsOf(SubSeq(s, 1, Len(s) - 1))
           x == s[Len(s)]
       IN  IF r # <<>> /\ r[Len(r)][1] = x
           THEN [r EXCEPT ![Len(r)] = <<x, @[2] + 1>>]
           ELSE Append(r, <<x, 1>>)

\* The groups in dict order, as <<cluster id, size>> pairs.
GroupSizes == [j \in 1..Len(group_keys) |-> <<group_keys[j], Len(groups[group_keys[j]])>>]

\* C11: when the cluster ids of the qualifying items taken so far are in
\* non-decreasing order, the groups, in dict order, are exactly the maximal
\* contiguous runs of equal cluster id among those items: same ids, same
\* sizes, same order, before and after the sort that ends the loop.
C11_GroupsAreContiguousRuns ==
  SortedIds(QualIds(consumed)) =>
    /\ GroupSizes = RunsOf(QualIds(consumed))
    /\ DOMAIN groups = {group_keys[j] : j \in 1..Len(group_keys)}

\* Ids [0,0,1,1,1,2], all qualifying, have been grouped into sizes [2,3,1].
C11_Witness ==
  /\ tpc = "dispatch"
  /\ QualIds(Len(items)) = <<0, 0, 1, 1, 1, 2>>
  /\ GroupSizes = << <<0, 2>>, <<1, 3>>, <<2, 1>> >>

(***************************************************************************)
(* Flatten / unflatten.                                                    *)
(***************************************************************************)
\* C12: whenever a list x has been flattened with a leaf predicate p and the
\* flat sequence unflattened against x with the same p, the unflatten call
\* returns and the list it returns equals x.
C12_RoundTripAnyPredicate ==
  (fpc = "round_trip" /\ original_input.k = "list") =>
    (unflat.ok /\ unflat.val = original_input)

\* The list [1] has been flattened and unflattened with a predicate that is
\* true of nothing: the flat sequence is [1] and the unflatten call raised.
C12_Witness ==
  /\ fpc = "round_trip"
  /\ original_input = List(<<Prim(1)>>)
  /\ is_primitive_predicate = "never"
  /\ flat_input = <<Prim(1)>>
  /\ ~unflat.ok

\* The round trip with the default predicate: every list comes back equal.
RoundTripDefaultPredicate ==
  (fpc = "round_trip" /\ original_input.k = "list"
     /\ is_primitive_predicate = "is_primitive") =>
    (unflat.ok /\ unflat.val = original_input)

\* The leaf predicates that are true of every primitive.
CoversPrimitives(p) == p \in {"is_primitive", "is_primitive_or_vector"}

\* Sum of the lengths of the inner sequences of a list of sequences.
RECURSIVE InnerLeaves(_)
InnerLeaves(origs) ==
  IF origs = <<>> THEN 0 ELSE Len(Elems(Head(origs))) + InnerLeaves(Tail(origs))

\* The number of leaves of the reference shape of the finished unflatten
\* call: for array_unflatten what array_flatten yields of it, for unflatten
\* the lengths of its inner sequences added up.
ShapeLeaves ==
  IF unflat.fn = "array_unflatten"
  THEN Len(array_flatten(original_input, is_primitive_predicate))
  ELSE InnerLeaves(original_input.c)

\* The reference shapes the two functions are meant for: a list, with a leaf
\* predicate true of the primitives (array_unflatten) or with inner sequences
\* only (unflatten).
ReferenceShape ==
  /\ original_input.k = "list"
  /\ IF unflat.fn = "array_unflatten" THEN CoversPrimitives(is_primitive_predicate)
     ELSE \A i \in 1..Len(original_input.c) : IsIterable(original_input.c[i])

C13_ShapePreserved ==
  /\ Len(yielded) <= Len(batch_input)
  /\ \A i \in 1..Len(yielded) : Len(yielded[i]) = Len(batch_input[i])
  /\ flatten(yielded) \o partial \o pending_outputs = flatten(f_outputs)
  /\ batch_size >= 1 => bpc # "raised"
  /\ bpc = "done" =>
       /\ Len(yielded) = Len(batch_input)
       /\ flatten(yielded) = flatten(f_outputs)

\* Inner lengths [2, 0, 2] with batches of 3: the call has finished with
\* inner lists of lengths 2, 0 and 2 holding f's four outputs in order.
C13_Witness ==
  /\ bpc = "done"
  /\ batch_input = << <<1, 2>>, <<>>, <<3, 4>> >>
  /\ batch_size = 3
  /\ f_outputs = << <<"u", "v", "v">>, <<"u">> >>
  /\ yielded = << <<"u", "v">>, <<>>, <<"v", "u">> >>

\* C14: with batch_size >= 1, the batches f has been called with are, in call
\* order, consecutive pieces of the flattened input from its start; each has
\* between 1 and batch_size elements and each but the last exactly
\* batch_size; f has returned once per batch; a finished call has covered the
\* whole flattened input; and with nothing to flatten f is never called.
C14_BatchesAreChunks ==
  batch_size >= 1 =>
    /\ \A j \in 1..Len(batches) :
         /\ Len(batches[j]) >= 1
         /\ Len(batches[j]) <= batch_size
         /\ j < Len(batches) => Len(batches[j]) = batch_size
    /\ Len(f_outputs) = Len(batches)
    /\ chunked <= Len(flatten(batch_input))
    /\ flatten(batches) = SubSeq(flatten(batch_input), 1, chunked)
    /\ bpc = "done" => flatten(batches) = flatten(batch_input)
    /\ flatten(batch_input) = <<>> => batches = <<>>

\* Five elements with batches of 2: f has been called on [1,2], [3,4], [5].
C14_Witness ==
  /\ bpc = "done"
  /\ batch_size = 2
  /\ batch_input = << <<1, 2>>, <<3, 4>>, <<5>> >>
  /\ batches = << <<1, 2>>, <<3, 4>>, <<5>> >>

(***************************************************************************)
(* Field and Schema.                                                       *)
(***************************************************************************)
\* C18: a Field that has been constructed has dtype STRUCT exactly when it
\* has child fields and dtype LIST exactly when it has a repeated_field.
C18_DtypeAgreesWithShape ==
  spc = "field_made" =>
    /\ (field.dtype = "struct") <=> (field.fields # EmptyDict)
    /\ (field.dtype = "list") <=> (field.repeated_field # <<>>)

\* Field(dtype=DataType.LIST) has been constructed: a LIST without a
\* repeated_field.
C18_Witness ==
  /\ spc = "field_made"
  /\ field_args = FieldRecord(<<>>, EmptyDict, "list", FALSE)
  /\ field.dtype = "list"
  /\ field.repeated_field = <<>>

\* The direction the validators do enforce: child fields make a STRUCT, a
\* repeated_field makes a LIST.
ShapeImpliesDtype ==
  spc = "field_made" =>
    /\ (field.fields # EmptyDict) => (field.dtype = "struct")
    /\ (field.repeated_field # <<>>) => (field.dtype = "list")

\* The field a path leads to from field f: a name picks the child of that
\* name, the wildcard picks the repeated field, a string_span has nothing
\* below it; <<>> when the path leads nowhere.
RECURSIVE Descend(_, _)
Descend(f, p) ==
  IF p = <<>> THEN <<f>>
  ELSE IF f.dtype = "string_span" THEN <<>>
  ELSE IF f.fields # EmptyDict
  THEN IF Head(p) \in DOMAIN f.fields THEN Descend(f.fields[Head(p)], Tail(p)) ELSE <<>>
  ELSE IF f.repeated_field # <<>> /\ Head(p) = PATH_WILDCARD
  THEN Descend(f.repeated_field[1], Tail(p))
  ELSE <<>>

\* The root of the schema's fields, as a struct.
RootField == FieldRecord(<<>>, schema_fields, "struct", FALSE)

\* A field at which the traversal stops.
Terminating(f) ==
  f.dtype = "string_span" \/ (f.fields = EmptyDict /\ f.repeated_field = <<>>)

\* The root-to-leaf paths of the schema's fields.
LeafPaths ==
  {p \in SeqsUpTo(FieldNames \cup {PATH_WILDCARD}, MaxSchemaNodes) :
     /\ Descend(RootField, p) # <<>>
     /\ Terminating(Descend(RootField, p)[1])}

\* C16: a Schema constructed from `fields` alone has as the keys of its
\* leafs exactly the root-to-leaf paths of `fields` (the field name at each
\* struct level, the wildcard at each list level), each mapped to the field
\* the path ends at.
C16_LeafsAreRootToLeafPaths ==
  (spc = "schema_made" /\ leafs_arg = EmptyDict) =>
    /\ DOMAIN leafs = LeafPaths
    /\ \A p \in LeafPaths : leafs[p] = Descend(RootField, p)[1]

\* A struct `a` holding a list of structs with the leaf `x` has exactly one
\* leaf, at (a, '*', x).
C16_Witness ==
  /\ spc = "schema_made"
  /\ leafs_arg = EmptyDict
  /\ LET x == FieldRecord(<<>>, EmptyDict, "string", FALSE)
         elem == FieldRecord(<<>>, Put(EmptyDict, <<"x">>, x), "struct", FALSE)
         a == FieldRecord(<<elem>>, EmptyDict, "list", FALSE)
     IN  /\ schema_fields = Put(EmptyDict, <<"a">>, a)
         /\ leafs = Put(EmptyDict, << <<"a">>, <<"*">>, <<"x">> >>, x)

\* C17: the leafs of every Schema that has been constructed equal a fresh
\* traversal of its fields.
C17_LeafsInSync ==
  spc = "schema_made" => leafs = compute_leafs(EmptyDict, schema_fields).val

\* Schema(fields={'a': string}, leafs={('x',): string}) has been
\* constructed: its leafs are the ones handed in, not those of its fields.
C17_Witness ==
  /\ spc = "schema_made"
  /\ leafs_arg = GivenLeafs
  /\ DOMAIN schema_fields = {<<"a">>}
  /\ schema_fields[<<"a">>].dtype = "string"
  /\ leafs = GivenLeafs
  /\ DOMAIN compute_leafs(EmptyDict, schema_fields).val = {<< <<"a">> >>}

\* The cases in which a path is to be refused, walking from cur (<<field>>,
\* or <<>> when there is no field): an index or wildcard at a non-list, a
\* name at a non-struct, a name the struct does not have, the end of the
\* path at a STRUCT or LIST.
RECURSIVE Refused(_, _)
Refused(cur, p) ==
  IF p = <<>> THEN cur # <<>> /\ cur[1].dtype \in {"struct", "list"}
  ELSE IF cur = <<>> THEN TRUE
  ELSE IF IsIndex(Head(p)) \/ Head(p) = PATH_WILDCARD
  THEN cur[1].dtype # "list" \/ Refused(cur[1].repeated_field, Tail(p))
  ELSE \/ cur[1].dtype # "struct"
       \/ Head(p) \notin DOMAIN cur[1].fields
       \/ Refused(<<cur[1].fields[Head(p)]>>, Tail(p))

\* C19: a validate_path_against_schema call raises exactly when the path is
\* empty or is refused in one of the cases above, and returns otherwise.
C19_RaisesExactlyWhenRefused ==
  spc = "validated" =>
    ((vresult = "raised") <=> (vpath = <<>> \/ Refused(<<RootField>>, vpath)))

\* The path (a, '*') has been validated against a schema whose field `a` is
\* a LIST without a repeated_field: none of the cases applies and the call
\* raised.
C19_Witness ==
  /\ spc = "validated"
  /\ DOMAIN schema_fields = {<<"a">>}
  /\ schema_fields[<<"a">>] = FieldRecord(<<>>, EmptyDict, "list", FALSE)
  /\ vpath = << <<"a">>, <<"*">> >>
  /\ vresult = "raised"

\* A field below which every LIST has its repeated_field.
RECURSIVE ListsHaveElements(_)
ListsHaveElements(f) ==
  /\ f.dtype = "list" => f.repeated_field # <<>>
  /\ f.repeated_field # <<>> => ListsHaveElements(f.repeated_field[1])
  /\ \A n \in DOMAIN f.fields : ListsHaveElements(f.fields[n])

\* On schemas whose every LIST has its repeated_field, the call raises
\* exactly in the cases above.
RaisesExactlyWhenRefusedOnProperLists ==
  (spc = "validated" /\ ListsHaveElements(RootField)) =>
    ((vresult = "raised") <=> (vpath = <<>> \/ Refused(<<RootField>>, vpath)))

\* C20: column_paths_match returns true exactly when the pattern and the
\* concrete path (a string counting as the one component it is) have the
\* same length and every pattern component is the wildcard or equals the
\* concrete component at its position.
C20_MatchIffAligned ==
  spc = "matched" =>
    LET pm == IF path_match.str THEN <<path_match.val>> ELSE path_match.val
        sp == IF specific_path.str THEN <<specific_path.val>> ELSE specific_path.val
    IN  (vresult = "true") <=>
          /\ Len(pm) = Len(sp)
          /\ \A i \in 1..Len(pm) : pm[i] = PATH_WILDCARD \/ pm[i] = sp[i]

\* The pattern (a, '*') has matched the concrete path (a, 0): the wildcard
\* stands for the integer index.
C20_Witness ==
  /\ spc = "matched"
  /\ path_match = [str |-> FALSE, val |-> << <<"a">>, <<"*">> >>]
  /\ specific_path = [str |-> FALSE, val |-> << <<"a">>, <<"#", "0">> >>]
  /\ vresult = "true"

(***************************************************************************)
(* The locks and the order of the phases of a _compute_topics run.        *)
(***************************************************************************)
\* C24: for every cluster id at most one task is inside the section its lock
\* protects, and that task is the one recorded as the lock's holder.
C24_OneWorkerPerClusterLock ==
  \A c \in DOMAIN cluster_locks :
    /\ Cardinality({i \in Tasks : pc[i] = "calling" /\ delayed_compute[i] = c}) <= 1
    /\ \A i \in Tasks :
         (pc[i] = "calling" /\ delayed_compute[i] = c) => cluster_locks[c] = i

\* Two tasks of one cluster id: one is inside the topic function, the other
\* has started and waits for the lock.
C24_Witness ==
  /\ Len(delayed_compute) = 2
  /\ delayed_compute[1] = delayed_compute[2]
  /\ \E i, j \in Tasks :
       /\ pc[i] = "calling"
       /\ pc[j] = "ready"
       /\ cluster_locks[delayed_compute[i]] = i

\* C25: a started task whose own cluster lock is free can enter its locked
\* section at once, whatever other locks are held.
C25_LockPerKey ==
  \A i \in Tasks :
    (/\ pc[i] = "ready"
     /\ delayed_compute[i] \in DOMAIN cluster_locks
     /\ cluster_locks[delayed_compute[i]] = 0)
      => ENABLED (ReturnCached(i) \/ EnterLock(i))

\* Two tasks of different cluster ids are inside the topic function at the
\* same time, each holding its own lock.
C25_Witness ==
  \E i, j \in Tasks :
    /\ delayed_compute[i] # delayed_compute[j]
    /\ pc[i] = "calling"
    /\ pc[j] = "calling"
    /\ cluster_locks[delayed_compute[i]] = i
    /\ cluster_locks[delayed_compute[j]] = j

\* C26: no task exists while the loop is grouping; once a worker has started,
\* every item has been consumed, the groups and locks are exactly those of
\* the cluster ids with a qualifying item, and every group is complete and in
\* non-increasing order of probability; after the grouping phase the groups
\* and the keys of the lock map never change, and a lock once created is
\* never dropped.
C26_GroupingPrecedesDispatch ==
  /\ [](tpc = "grouping" => (Tasks = {} /\ started = 0))
  /\ [](started > 0
          => /\ consumed = Len(items)
             /\ DOMAIN groups = {c \in ClusterIds : QualifyingAt(c) # {}}
             /\ DOMAIN cluster_locks = DOMAIN groups
             /\ \A c \in DOMAIN groups :
                  /\ Len(groups[c]) = Cardinality(QualifyingAt(c))
                  /\ \A j \in 1..(Len(groups[c]) - 1) :
                       groups[c][j][2] >= groups[c][j + 1][2])
  /\ [][tpc # "grouping"
          => (groups' = groups /\ DOMAIN cluster_locks' = DOMAIN cluster_locks)]_vars
  /\ [][\A c \in DOMAIN cluster_locks : c \in DOMAIN cluster_locks']_vars

\* A worker has started on a stream of two qualifying items of one cluster
\* whose probabilities rise, so the sort has reordered the group.
C26_Witness ==
  /\ started > 0
  /\ Len(items) = 2
  /\ items[1].cluster_id = items[2].cluster_id
  /\ Qualifying(items[1])
  /\ Qualifying(items[2])
  /\ items[1].prob < items[2].prob
  /\ groups[items[1].cluster_id][1][2] = items[2].prob

\* Sum of the attempts of the tasks of cluster id c among the first n tasks.
RECURSIVE AttemptsFor(_, _)
AttemptsFor(c, n) ==
  IF n = 0 THEN 0
  ELSE AttemptsFor(c, n - 1) + (IF delayed_compute[n] = c THEN attempt[n] ELSE 0)

\* C27: no task makes more than ten attempts, and the topic function is
\* called at most once per attempt.
C27_AtMostTenCallsPerTask ==
  /\ \A i \in Tasks : attempt[i] <= MaxAttempts
  /\ \A c \in ClusterIds : fnCalls[c] <= AttemptsFor(c, Len(attempt))

\* The only task of a run has given up after the topic function raised in
\* each of its ten calls.
C27_Witness ==
  /\ Len(items) = 1
  /\ 1 \in Tasks
  /\ pc[1] = "failed"
  /\ attempt[1] = MaxAttempts
  /\ fnCalls[items[1].cluster_id] = MaxAttempts
  /\ fnReturns[items[1].cluster_id] = 0

\* C28: in a completed run an item that does not qualify but whose
\* non-negative cluster id has a qualifying item has an output, which is the
\* topic of its cluster and not None; and None is yielded only at positions
\* whose cluster id has no qualifying item.
C28_FilteredItemGetsClusterTopic ==
  /\ tpc = "done"
       => \A k \in 1..Len(items) :
            (/\ ~Qualifying(items[k])
             /\ items[k].cluster_id >= 0
             /\ QualifyingAt(items[k].cluster_id) # {})
              => /\ k \in DOMAIN output
                 /\ output[k] \in TopicValues
                 /\ output[k] = TopicOf(items[k].cluster_id)
  /\ \A k \in 1..Len(output) :
       (k <= Len(items) /\ output[k] = NoTopic) => QualifyingAt(items[k].cluster_id) = {}

\* A completed run whose second item has an empty text and the cluster id of
\* the qualifying first item, and was given that cluster's topic.
C28_Witness ==
  /\ tpc = "done"
  /\ Len(items) = 2
  /\ Qualifying(items[1])
  /\ items[2].text = ""
  /\ items[2].cluster_id = items[1].cluster_id
  /\ output[2] \in TopicValues

\* C29: a lock is held only by a task that is inside the topic function for
\* the lock's cluster id, so not by a task that has returned, has raised or
\* waits for its next attempt; no task holds two locks; a run that has not
\* ended can always take a step; and all locks are free when every task has
\* ended and when the run has completed.
C29_LockDiscipline ==
  /\ \A c \in DOMAIN cluster_locks :
       cluster_locks[c] # 0
         => /\ cluster_locks[c] \in Tasks
            /\ pc[cluster_locks[c]] = "calling"
            /\ delayed_compute[cluster_locks[c]] = c
  /\ \A i \in Tasks :
       Cardinality({c \in DOMAIN cluster_locks : cluster_locks[c] = i}) <= 1
  /\ tpc \in {"grouping", "dispatch"} => ENABLED NextRun
  /\ (tpc = "done" \/ (Tasks # {} /\ \A i \in Tasks : pc[i] \in {"done", "failed"}))
       => \A c \in DOMAIN cluster_locks : cluster_locks[c] = 0

\* A task whose first call of the topic function raised waits for its second
\* attempt while another task of the same cluster is inside the topic
\* function with the lock the first one gave back.
C29_Witness ==
  \E i, j \in Tasks :
    /\ pc[i] = "ready"
    /\ attempt[i] = 2
    /\ pc[j] = "calling"
    /\ delayed_compute[i] = delayed_compute[j]
    /\ cluster_locks[delayed_compute[j]] = j

(***************************************************************************)
(* normalize_path.                                                         *)
(***************************************************************************)
\* The components joined with '.'.
RECURSIVE JoinDots(_)
JoinDots(parts) ==
  IF Len(parts) = 1 THEN parts[1]
  ELSE parts[1] \o <<".">> \o JoinDots(Tail(parts))

\* C22: a tuple is returned as it was given; a string comes back as at least
\* one component, none of which holds a '.', and joining the components with
\* '.' gives the string back; and normalize_path of the result is the result.
C22_NormalizeIsIdempotent ==
  /\ (npc \in {"once", "twice"} /\ ~norm_path.str) => normalized = norm_path.val
  /\ (npc \in {"once", "twice"} /\ norm_path.str)
       => /\ Len(normalized) >= 1
          /\ \A j \in 1..Len(normalized) :
               \A n \in 1..Len(normalized[j]) : normalized[j][n] # "."
          /\ JoinDots(normalized) = norm_path.val
  /\ npc = "twice" => renormalized = normalized

\* normalize_path split "a.*." into the components a, * and the empty
\* string, and returned them unchanged when called on them again.
C22_Witness ==
  /\ npc = "twice"
  /\ norm_path = [str |-> TRUE, val |-> <<"a", ".", "*", ".">>]
  /\ normalized = << <<"a">>, <<"*">>, <<>> >>
  /\ renormalized = normalized

(***************************************************************************)
(* VectorStore.topk.                                                       *)
(***************************************************************************)
\* The keys topk may return: the restricted keys, or every stored key.
CandidateKeys ==
  IF topk_keys.given THEN {topk_keys.val[j] : j \in 1..Len(topk_keys.val)}
  ELSE {store[i][1] : i \in 1..Len(store)}

\* The score of a stored key for the query.
ScoreOfKey(key) == Score(store[CHOOSE i \in 1..Len(store) : store[i][1] = key][2], query)

\* A list of (key, score) pairs is a top-k answer: min(k, candidates) pairs
\* of distinct candidate keys, each with its own score, in non-increasing
\* order of score, and no candidate left out scores higher than one returned.
IsTopK(res) ==
  /\ Len(res) = (IF topk_k < Cardinality(CandidateKeys) THEN topk_k
                 ELSE Cardinality(CandidateKeys))
  /\ \A i \in 1..Len(res) :
       /\ res[i][1] \in CandidateKeys
       /\ res[i][2] = ScoreOfKey(res[i][1])
       /\ \A j \in 1..Len(res) : i # j => res[i][1] # res[j][1]
  /\ \A i \in 1..(Len(res) - 1) : res[i][2] >= res[i + 1][2]
  /\ \A key \in CandidateKeys :
       (\A i \in 1..Len(res) : res[i][1] # key)
         => \A i \in 1..Len(res) : res[i][2] >= ScoreOfKey(key)

\* C23 as stated: topk returns a top-k answer, and a call with the same keys
\* in any other order returns the same list.
C23_SameForAnyKeyOrder ==
  /\ kpc \in {"ranked", "ranked_again"} => IsTopK(topk_result)
  /\ kpc = "ranked_again" => topk_again = topk_result

\* C23 amended: topk returns a top-k answer; a call with the same keys in
\* any other order returns a top-k answer with the same scores, and the same
\* list when no two candidates have the same score.
C23_SameScoresForAnyKeyOrder ==
  /\ kpc \in {"ranked", "ranked_again"} => IsTopK(topk_result)
  /\ kpc = "ranked_again"
       => /\ IsTopK(topk_again)
          /\ [i \in 1..Len(topk_again) |-> topk_again[i][2]]
               = [i \in 1..Len(topk_result) |-> topk_result[i][2]]
          /\ (\A c, d \in CandidateKeys : c # d => ScoreOfKey(c) # ScoreOfKey(d))
               => topk_again = topk_result

\* The store holds a = (0.45, 0.89), b = (0.6, 0.8), c = (0.64, 0.77); topk
\* with k = 3 and keys (b, a) returned b (0.894) then a (0.801), and so did
\* the call with keys (a, b).
C23_Witness ==
  /\ kpc = "ranked_again"
  /\ store = << <<"a", <<45, 89>> >>, <<"b", <<60, 80>> >>, <<"c", <<64, 77>> >> >>
  /\ topk_k = 3
  /\ topk_keys = [given |-> TRUE, val |-> <<"b", "a">>]
  /\ keys_again = <<"a", "b">>
  /\ topk_result = << <<"b", 8940>>, <<"a", 8010>> >>
  /\ topk_again = topk_result

(***************************************************************************)
(* Path validation against the leaf map.                                   *)
(***************************************************************************)
\* A validate_path_against_schema call on a Schema constructed from `fields`
\* alone, with a non-empty path of field names and wildcards.
ValidatedNamesAndWildcards ==
  /\ spc = "validated"
  /\ leafs_arg = EmptyDict
  /\ vpath # <<>>
  /\ \A j \in 1..Len(vpath) : vpath[j] \in FieldNames \cup {PATH_WILDCARD}

\* C30: such a call returns exactly when the path is a key of the schema's
\* leafs.
C30_ValidIffLeafPath ==
  ValidatedNamesAndWildcards => ((vresult = "ok") <=> (vpath \in DOMAIN leafs))

\* The path (a) has been validated against Schema(fields={'a':
\* Field(dtype=STRUCT)}): it is a key of leafs and the call raised.
C30_Witness ==
  /\ ValidatedNamesAndWildcards
  /\ DOMAIN schema_fields = {<<"a">>}
  /\ schema_fields[<<"a">>] = FieldRecord(<<>>, EmptyDict, "struct", FALSE)
  /\ vpath = << <<"a">> >>
  /\ vpath \in DOMAIN leafs
  /\ vresult = "raised"

\* A field below which dtype STRUCT goes with child fields and dtype LIST
\* with a repeated_field, and with nothing else.
RECURSIVE DtypeMatchesShape(_)
DtypeMatchesShape(f) ==
  /\ (f.dtype = "struct") <=> (f.fields # EmptyDict)
  /\ (f.dtype = "list") <=> (f.repeated_field # <<>>)
  /\ f.repeated_field # <<>> => DtypeMatchesShape(f.repeated_field[1])
  /\ \A n \in DOMAIN f.fields : DtypeMatchesShape(f.fields[n])

\* On schemas without a childless STRUCT and without a LIST that lacks its
\* repeated_field, validation and the leaf map agree.
ValidIffLeafPathOnShapedFields ==
  (ValidatedNamesAndWildcards /\ DtypeMatchesShape(RootField))
    => ((vresult = "ok") <=> (vpath \in DOMAIN leafs))

(***************************************************************************)
(* The round trip through the arrow schema.                                *)
(***************************************************************************)
\* The dtypes of the mapping table.
MappedDataTypes ==
  {"string", "boolean", "int8", "int16", "int32", "int64", "uint8", "uint16", "uint32",
   "uint64", "float16", "float32", "float64", "time", "date", "timestamp", "interval",
   "binary"}

\* Every leaf below the field is a string_span or has a dtype of the table.
RECURSIVE LeavesAreMapped(_)
LeavesAreMapped(f) ==
  IF f.dtype = "string_span" THEN TRUE
  ELSE IF f.fields # EmptyDict THEN \A n \in DOMAIN f.fields : LeavesAreMapped(f.fields[n])
  ELSE IF f.repeated_field # <<>> THEN LeavesAreMapped(f.repeated_field[1])
  ELSE f.dtype \in MappedDataTypes

\* The field with every string_span below it replaced by a struct of the two
\* int32 fields start and end.
RECURSIVE SpansLowered(_)
SpansLowered(f) ==
  IF f.dtype = "string_span"
  THEN [dtype |-> "struct",
        fields |-> Put(Put(EmptyDict, <<"start">>,
                           [dtype |-> "int32", fields |-> EmptyDict,
                            repeated_field |-> <<>>, refers_to |-> FALSE]),
                       <<"end">>,
                       [dtype |-> "int32", fields |-> EmptyDict,
                        repeated_field |-> <<>>, refers_to |-> FALSE]),
        repeated_field |-> <<>>, refers_to |-> FALSE]
  ELSE [dtype |-> f.dtype,
        fields |-> [n \in DOMAIN f.fields |-> SpansLowered(f.fields[n])],
        repeated_field |->
          [i \in DOMAIN f.repeated_field |-> SpansLowered(f.repeated_field[i])],
        refers_to |-> f.refers_to]

\* The constructed schema has been handed to schema_to_arrow_schema and all
\* its leaf dtypes are in the mapping table.
ConvertedMappedSchema ==
  /\ spc = "schema_made"
  /\ apc # "start"
  /\ \A n \in DOMAIN schema_fields : LeavesAreMapped(schema_fields[n])

\* C21: for such a schema neither conversion raises, and the fields that come
\* back are the original fields with every string_span lowered to its struct
\* of start and end.
C21_RoundTripsExceptSpans ==
  ConvertedMappedSchema
    => /\ apc \notin {"arrow_raised", "back_raised"}
       /\ apc = "back"
            => back_fields = [n \in DOMAIN schema_fields |-> SpansLowered(schema_fields[n])]

\* Schema(fields={'__rowid__': Field(dtype='string')}) has been converted
\* and converted back: its field has come back as BINARY.
C21_Witness ==
  /\ ConvertedMappedSchema
  /\ apc = "back"
  /\ DOMAIN schema_fields = {UUID_COLUMN}
  /\ schema_fields[UUID_COLUMN].dtype = "string"
  /\ back_fields[UUID_COLUMN].dtype = "binary"

\* Without a UUID column that is not BINARY and without a TIME leaf, the round
\* trip is exact up to the lowering of the string_spans.
RECURSIVE HasTime(_)
HasTime(f) ==
  \/ f.dtype = "time"
  \/ \E n \in DOMAIN f.fields : HasTime(f.fields[n])
  \/ \E i \in DOMAIN f.repeated_field : HasTime(f.repeated_field[i])

RoundTripsWithoutUuidAndTime ==
  (/\ ConvertedMappedSchema
   /\ UUID_COLUMN \in DOMAIN schema_fields => schema_fields[UUID_COLUMN].dtype = "binary"
   /\ \A n \in DOMAIN schema_fields : ~HasTime(schema_fields[n]))
    => /\ apc \notin {"arrow_raised", "back_raised"}
       /\ apc = "back"
            => back_fields = [n \in DOMAIN schema_fields |-> SpansLowered(schema_fields[n])]
====
